---- MODULE Spec2Model ----
(***************************************************************************)
(* Verification model of rvoip_sip_server's audio core:                    *)
(*   src/src/mp3_handler.rs    Mp3Handler, SimpleResampler,                *)
(*                             TelephonyAudioProcessor                     *)
(*   src/src/tone_generator.rs ToneGenerator (G.711 encoders)              *)
(*   src/src/config.rs         AudioProcessingConfig defaults              *)
(*                                                                         *)
(* f32 values are modelled as fixed-point integers in units of 1/Scale,    *)
(* finite in -FMax..FMax, with three extra values PInf, NInf and NaN that  *)
(* follow the IEEE-754 rules the code relies on (overflow gives an         *)
(* infinity, Inf-Inf and 0*Inf give NaN, NaN propagates, every comparison  *)
(* with NaN is false).                                                     *)
(***************************************************************************)
EXTENDS Integers, Sequences, FiniteSets, TLC

VARIABLES
    \* ---- TelephonyAudioProcessor (mp3_handler.rs:312-327)
    config,        \* AudioProcessingConfig the processor was built with
    proc,          \* the processor's state cells
    out,           \* value returned by the last process_sample call
    twin,          \* a processor built by new() when proc was last reset
    twinOut,       \* value the twin returned for the same input
    calls,         \* process_sample calls made so far
    resets,        \* reset() calls made so far
    sinceReset,    \* process_sample calls since the last reset()
    beforeReset,   \* the state cells reset() last cleared
    \* ---- G.711 encoders (tone_generator.rs:187-250, mp3_handler.rs:242-271)
    overflow_checks, \* build profile: TRUE panics on integer overflow, FALSE wraps
    sample,        \* the 16-bit PCM sample handed to the encoders
    mulaw,         \* outcome of ToneGenerator::linear_to_mulaw(sample)
    mp3_mulaw,     \* outcome of Mp3Handler::linear_to_mulaw(sample)
    alaw,          \* outcome of ToneGenerator::linear_to_alaw(sample)
    first,         \* the outcomes of the first encoding of sample
    encodes,       \* encodings of sample made so far
    \* ---- SimpleResampler (mp3_handler.rs:274-309)
    resampler,     \* source_rate, target_rate, position, last_sample
    rs_output,     \* the Vec the last process_sample call returned
    rs_calls,      \* process_sample calls made so far
    rs_emitted,    \* output samples emitted so far, over all calls
    rs_input,      \* input_sample of the last process_sample call (0.0 before any)
    rs_prev_input, \* input_sample of the call before that (0.0 before any)
    \* ---- Mp3Handler::convert_mp3_to_wav / read_wav_samples (mp3_handler.rs:68-240)
    wav_file,      \* the file at wav_path: exists, samples, complete, created_by
    conv_pc,       \* where the current convert_mp3_to_wav call stands
    conv_result,   \* what the last convert_mp3_to_wav call returned
    conv_failed,   \* an upstream read, decode or write failure hit the current call
    conv_calls,    \* convert_mp3_to_wav calls started so far
    packets,       \* packets next_packet has returned to the current call
    audio_buf,     \* samples of the decoded packet still to be processed
    sample_count,  \* samples the current call has written
    read_result,   \* what the last read_wav_samples call returned
    \* ---- TelephonyAudioProcessor::soft_limiter on two inputs (mp3_handler.rs:672-680)
    lim_cfg,       \* the configuration holding soft_limiter_threshold
    lim_a,         \* first input
    lim_b,         \* second input
    lim_out,       \* <<soft_limiter(a), soft_limiter(b)>> once computed
    \* ---- TelephonyAudioProcessor::compress_band on one band (mp3_handler.rs:603-658)
    band_input,      \* the band's sample
    band_config,     \* config: &CompressorBandConfig
    band_compressor, \* compressor: &mut BandCompressor (the band's envelope)
    band_result,     \* [out, compressor] once compress_band returned
    \* ---- TelephonyAudioProcessor::process_sample, one statement at a time
    \*      (mp3_handler.rs:398-413, 555-600)
    pipe_config,   \* self.config
    pipe_proc,     \* self: the filter histories and envelopes
    pipe_pc,       \* the statement about to run, "return" between calls
    pipe_locals,   \* the local variables of process_sample and the functions it calls
    pipe_log,      \* the statements run during the current call, in order
    pipe_entry,    \* self as it was when the current call began
    pipe_out,      \* the value the last call returned
    pipe_calls,    \* process_sample calls begun
    \* ---- ToneGenerator (tone_generator.rs), shared between tasks behind an Arc
    tone_config,   \* config: Arc<RwLock<ToneConfig>>
    is_generating, \* is_generating: Arc<RwLock<bool>>
    tone_pc,       \* the task inside generate_tone: "idle" or "generating"
    tone_local,    \* the `config` local of the generate_tone call in progress
    tone_result,   \* the last call of a generate_* function and what it returned
    \* ---- server start-up: configuration validated, then the handler built
    \*      (main.rs:333-378)
    server_config,   \* server_config.audio_processing as loaded from the file
    validate_result, \* what server_config.validate() returned: "Ok" or "Err"
    main_pc,         \* "loaded", "validated", "exited" (validate failed) or "running"
    mp3_handler,     \* the Mp3Handler and its TelephonyAudioProcessor once built
    \* ---- CallHandler (call_handler.rs:40-46) and the tasks that use it
    max_concurrent_calls, \* the limit the handler was built with
    active_calls,  \* active_calls: Arc<RwLock<HashMap<String, CallInfo>>>,
                   \* call id -> status
    statistics,    \* statistics: Arc<RwLock<CallStatistics>>
    call_pc,       \* per task: where it stands in the handler's code
    direct,        \* the call id the direct answer_call / hangup_call is about
    call_result,   \* per call id: what handle_incoming_call returned
    answered_ids,  \* ids of the calls answer_call set to Answered
    direct_calls,  \* direct answer_call / hangup_call invocations begun
    \* ---- HealthMonitor (health_monitor.rs:53-60), its run loop and the
    \*      server it watches
    health_config, \* config: HealthConfig
    monitor,       \* restart_attempts, last_restart_time, server_start_time
    mon_pc,        \* where run() stands
    server,        \* the watched process and what its /health endpoint answers
    last_check,    \* the latest check_health: the server it saw and the result
    should_restart_call, \* the latest should_restart call: self and the result
    restart_calls  \* restart_server calls since the last passed check

procVars == <<config, proc, out, twin, twinOut, calls, resets, sinceReset, beforeReset>>

codecVars == <<overflow_checks, sample, mulaw, mp3_mulaw, alaw, first, encodes>>

rsVars == <<resampler, rs_output, rs_calls, rs_emitted, rs_input, rs_prev_input>>

convVars == <<wav_file, conv_pc, conv_result, conv_failed, conv_calls, packets,
              audio_buf, sample_count, read_result>>

limVars == <<lim_cfg, lim_a, lim_b, lim_out>>

bandVars == <<band_input, band_config, band_compressor, band_result>>

\* the stages and functions exercised one call at a time
pipeVars == <<pipe_config, pipe_proc, pipe_pc, pipe_locals, pipe_log, pipe_entry,
              pipe_out, pipe_calls>>

toneVars == <<tone_config, is_generating, tone_pc, tone_local, tone_result>>

cfgVars == <<server_config, validate_result, main_pc, mp3_handler>>

callVars == <<max_concurrent_calls, active_calls, statistics, call_pc, direct,
              call_result, answered_ids, direct_calls>>

monVars == <<health_config, monitor, mon_pc, server, last_check,
             should_restart_call, restart_calls>>

svcVars == <<callVars, monVars>>

fnVars == <<limVars, bandVars, pipeVars, toneVars, cfgVars, svcVars>>

vars == <<procVars, codecVars, rsVars, convVars, fnVars>>

\* ------------------------------------------------------------------------
\* Bounds of the model
\* ------------------------------------------------------------------------
\* units per 1.0 of the fixed-point stand-in for f32
Scale == 1000
\* largest finite value of the stand-in for f32 (f32::MAX), in units
FMax == 1000000
\* process_sample calls explored per run
MaxCalls == 3
\* reset() calls explored per run
MaxResets == 1
\* encodings of one sample explored per run
MaxEncodes == 2
\* SimpleResampler::process_sample calls explored per run
MaxResamplerCalls == 18
\* convert_mp3_to_wav calls explored per run
MaxConvertCalls == 2
\* packets the source yields to one convert_mp3_to_wav call
MaxPackets == 2
\* max_samples of convert_mp3_to_wav (target_sample_rate * 30), scaled down
MaxSamples == 3
\* process_sample calls followed statement by statement
MaxPipelineCalls == 2
\* soft_limiter inputs explored: MaxLimiterSteps steps of 0.05 either side of 0
MaxLimiterSteps == 30
\* handle_incoming_call invocations explored per run, each with its own
\* Uuid::new_v4() call id
MaxIncomingCalls == 2
\* direct answer_call / hangup_call invocations explored per run
MaxDirectCalls == 2
\* largest max_restart_attempts a monitor is configured with
MaxRestartAttempts == 2

\* ------------------------------------------------------------------------
\* f32 arithmetic
\* ------------------------------------------------------------------------
PInf == FMax + 1
NInf == 0 - (FMax + 1)
NaN == FMax + 2
One == Scale

F32 == (NInf..PInf) \cup {NaN}

\* A value computed once and then named, as a `let` binding or an argument
\* passed by value is: Body is applied to the value of v, not to its text.
Bind(v, Body(_)) == CHOOSE r \in {Body(x) : x \in {v}} : TRUE

Bind2(v, w, Body(_, _)) == CHOOSE r \in {Body(x, y) : x \in {v}, y \in {w}} : TRUE

Abs(n) == IF n < 0 THEN 0 - n ELSE n

IsNaN(x) == x = NaN
IsInf(x) == x = PInf \/ x = NInf
IsFinite(x) == \E v \in {x} : v >= 0 - FMax /\ v <= FMax

\* an exact result n (in units) as the nearest representable value
Overflow(n) == IF n > FMax THEN PInf ELSE IF n < 0 - FMax THEN NInf ELSE n

FNeg(a) == Bind(a, LAMBDA x : IF IsNaN(x) THEN NaN ELSE 0 - x)

FAbs(a) == Bind(a, LAMBDA x : IF IsNaN(x) THEN NaN ELSE Abs(x))

\* f32::signum: 1.0 for +0.0 and positives, -1.0 for negatives, NaN for NaN
FSignum(a) == Bind(a, LAMBDA x : IF IsNaN(x) THEN NaN ELSE IF x < 0 THEN 0 - One ELSE One)

FAdd(a, b) ==
    Bind2(a, b, LAMBDA x, y :
        IF IsNaN(x) \/ IsNaN(y) THEN NaN
        ELSE IF IsInf(x) /\ IsInf(y) THEN (IF x = y THEN x ELSE NaN)
        ELSE IF IsInf(x) THEN x
        ELSE IF IsInf(y) THEN y
        ELSE Overflow(x + y))

FSub(a, b) == FAdd(a, FNeg(b))

SignOf(a, b) == IF (a < 0) = (b < 0) THEN 1 ELSE 0 - 1

FMul(a, b) ==
    Bind2(a, b, LAMBDA x, y :
        IF IsNaN(x) \/ IsNaN(y) THEN NaN
        ELSE IF IsInf(x) \/ IsInf(y)
             THEN (IF x = 0 \/ y = 0 THEN NaN
                   ELSE IF SignOf(x, y) = 1 THEN PInf ELSE NInf)
        ELSE IF x = 0 \/ y = 0 THEN 0
        ELSE IF Abs(y) >= (((FMax + 1) * Scale) + Abs(x) - 1) \div Abs(x)
             THEN (IF SignOf(x, y) = 1 THEN PInf ELSE NInf)
        ELSE SignOf(x, y) * ((Abs(x) * Abs(y)) \div Scale))

FDiv(a, b) ==
    Bind2(a, b, LAMBDA x, y :
        IF IsNaN(x) \/ IsNaN(y) THEN NaN
        ELSE IF IsInf(x) /\ IsInf(y) THEN NaN
        ELSE IF IsInf(x) THEN (IF SignOf(x, y) = 1 THEN PInf ELSE NInf)
        ELSE IF IsInf(y) THEN 0
        ELSE IF y = 0 THEN (IF x = 0 THEN NaN ELSE IF x > 0 THEN PInf ELSE NInf)
        ELSE Overflow(SignOf(x, y) * ((Abs(x) * Scale) \div Abs(y))))

\* comparisons: false as soon as one side is NaN
FLt(a, b) == \E x \in {a}, y \in {b} : ~IsNaN(x) /\ ~IsNaN(y) /\ x < y
FLe(a, b) == \E x \in {a}, y \in {b} : ~IsNaN(x) /\ ~IsNaN(y) /\ x <= y
FGt(a, b) == \E x \in {a}, y \in {b} : ~IsNaN(x) /\ ~IsNaN(y) /\ x > y

\* f32::min returns the other operand when one is NaN
FMin(a, b) ==
    Bind2(a, b, LAMBDA x, y :
        IF IsNaN(x) THEN y ELSE IF IsNaN(y) THEN x ELSE IF x < y THEN x ELSE y)

\* f32::clamp keeps NaN
FClamp(a, lo, hi) ==
    Bind(a, LAMBDA x :
        IF IsNaN(x) THEN NaN ELSE IF x < lo THEN lo ELSE IF x > hi THEN hi ELSE x)

\* e^(-u) for a finite u >= 0 in units: 1 / (1 + u + u^2/2 + u^3/6), which is
\* 1 at u = 0, strictly decreasing, and 0 beyond ten units of range
ExpNeg(u) ==
    IF u > 10 * Scale THEN 0
    ELSE LET u2 == (u * u) \div (2 * Scale)
             u3 == (u2 * u) \div (3 * Scale)
         IN (Scale * Scale) \div (Scale + u + u2 + u3)

FExp(a) ==
    Bind(a, LAMBDA x :
        IF IsNaN(x) THEN NaN
        ELSE IF x = PInf THEN PInf
        ELSE IF x = NInf THEN 0
        ELSE IF x <= 0 THEN ExpNeg(0 - x)
        ELSE IF ExpNeg(x) = 0 THEN PInf
        ELSE Overflow((Scale * Scale) \div ExpNeg(x)))

\* ------------------------------------------------------------------------
\* AudioProcessingConfig (config.rs)
\* ------------------------------------------------------------------------
\* A band's attack_time and release_time enter compress_band only through
\* attack_coeff = exp(-1/(attack_time*sample_rate)) and release_coeff
\* (mp3_handler.rs:613-614); the band records carry these two coefficients,
\* computed for sample_rate = 8000 (mp3_handler.rs:31).
Band1Default ==
    [target_level |-> 400, attack_time |-> 10, release_time |-> 150,
     attack_coeff |-> 988, release_coeff |-> 999,
     ratio |-> 4000, threshold_factor |-> 600, knee_width |-> 150, enabled |-> TRUE]

Band2Default ==
    [target_level |-> 600, attack_time |-> 20, release_time |-> 80,
     attack_coeff |-> 994, release_coeff |-> 998,
     ratio |-> 2500, threshold_factor |-> 750, knee_width |-> 200, enabled |-> TRUE]

Band3Default ==
    [target_level |-> 700, attack_time |-> 5, release_time |-> 50,
     attack_coeff |-> 975, release_coeff |-> 998,
     ratio |-> 2000, threshold_factor |-> 800, knee_width |-> 100, enabled |-> TRUE]

DefaultAudioProcessingConfig ==
    [preemphasis_alpha |-> 950,
     band1_compressor |-> Band1Default,
     band2_compressor |-> Band2Default,
     band3_compressor |-> Band3Default,
     noise_gate_threshold |-> 10,
     noise_gate_ratio |-> 100,
     soft_limiter_threshold |-> 900]

\* validate_compressor_band: a value is rejected only when one of the
\* comparisons is true, so NaN passes every range check
validate_compressor_band(band) ==
    /\ ~(FLe(band.target_level, 0) \/ FGt(band.target_level, One))
    /\ ~(FLe(band.attack_time, 0) \/ FGt(band.attack_time, One))
    /\ ~(FLe(band.release_time, 0) \/ FGt(band.release_time, 5 * One))
    /\ ~(FLt(band.ratio, One) \/ FGt(band.ratio, 20 * One))
    /\ ~(FLt(band.threshold_factor, 0) \/ FGt(band.threshold_factor, One))
    /\ ~(FLt(band.knee_width, 0) \/ FGt(band.knee_width, One))

\* ServerConfig::validate, audio_processing part: preemphasis_alpha and the
\* three bands are range-checked; noise_gate_threshold, noise_gate_ratio and
\* soft_limiter_threshold are not looked at
validate(cfg) ==
    /\ ~(FLt(cfg.preemphasis_alpha, 0) \/ FGt(cfg.preemphasis_alpha, One))
    /\ validate_compressor_band(cfg.band1_compressor)
    /\ validate_compressor_band(cfg.band2_compressor)
    /\ validate_compressor_band(cfg.band3_compressor)

\* Configuration files the server may be started with: the defaults; the
\* defaults with fields moved to the ends of their ranges; a file with
\* `noise_gate_ratio = inf`; and two files validate rejects.
LoadedConfigs ==
    { DefaultAudioProcessingConfig,
      [DefaultAudioProcessingConfig EXCEPT
          !.preemphasis_alpha = One,
          !.noise_gate_threshold = FMax,
          !.noise_gate_ratio = FMax,
          !.soft_limiter_threshold = 0,
          !.band1_compressor.knee_width = 0,
          !.band1_compressor.threshold_factor = 0,
          !.band2_compressor.enabled = FALSE],
      [DefaultAudioProcessingConfig EXCEPT
          !.preemphasis_alpha = 0,
          !.noise_gate_ratio = 0 - FMax,
          !.soft_limiter_threshold = FMax,
          !.band1_compressor.enabled = FALSE,
          !.band2_compressor.enabled = FALSE,
          !.band3_compressor.enabled = FALSE],
      [DefaultAudioProcessingConfig EXCEPT !.noise_gate_ratio = PInf],
      [DefaultAudioProcessingConfig EXCEPT !.preemphasis_alpha = 2 * One],
      [DefaultAudioProcessingConfig EXCEPT !.band2_compressor.ratio = 0] }

\* the configurations main hands to Mp3Handler::new (main.rs:339, 369)
ValidatedConfigs == {cfg \in LoadedConfigs : validate(cfg)}

\* Second-order sections for sample_rate 8000 and the default corner
\* frequencies (300, 3400; splits 800, 2500), none of which the 0.95*Nyquist
\* clamp changes: the values of b0, b1, b2, a1, a2 the code computes.
bandpass_coeffs == [b0 |-> 731, b1 |-> 0, b2 |-> 0 - 731, a1 |-> 0 - 183, a2 |-> 0 - 461]

lowpass1_coeffs == [b0 |-> 67, b1 |-> 135, b2 |-> 67, a1 |-> 0 - 1143, a2 |-> 413]

highpass2_coeffs == [b0 |-> 187, b1 |-> 0 - 373, b2 |-> 187, a1 |-> 463, a2 |-> 210]

bandpass2_coeffs == [b0 |-> 441, b1 |-> 0, b2 |-> 0 - 441, a1 |-> 0 - 387, a2 |-> 118]

\* ------------------------------------------------------------------------
\* TelephonyAudioProcessor
\* ------------------------------------------------------------------------
BandSplitFilters_new ==
    [lowpass1_x1 |-> 0, lowpass1_x2 |-> 0, lowpass1_y1 |-> 0, lowpass1_y2 |-> 0,
     highpass2_x1 |-> 0, highpass2_x2 |-> 0, highpass2_y1 |-> 0, highpass2_y2 |-> 0,
     bandpass2_x1 |-> 0, bandpass2_x2 |-> 0, bandpass2_y1 |-> 0, bandpass2_y2 |-> 0]

BandCompressor_new == [envelope |-> 0]

TelephonyAudioProcessor_new ==
    [preemphasis_prev |-> 0,
     bandpass_x1 |-> 0, bandpass_x2 |-> 0, bandpass_y1 |-> 0, bandpass_y2 |-> 0,
     band_filters |-> BandSplitFilters_new,
     band1_compressor |-> BandCompressor_new,
     band2_compressor |-> BandCompressor_new,
     band3_compressor |-> BandCompressor_new]

\* `if output.is_finite() { output } else { 0.0 }`
FiniteOrZero(output) == IF IsFinite(output) THEN output ELSE 0

\* b0*input + b1*x1 + b2*x2 - a1*y1 - a2*y2, evaluated left to right
DirectForm(c, input, x1, x2, y1, y2) ==
    FSub(FSub(FAdd(FAdd(FMul(c.b0, input), FMul(c.b1, x1)), FMul(c.b2, x2)),
              FMul(c.a1, y1)),
         FMul(c.a2, y2))

preemphasis_filter(p, cfg, input) ==
    Bind(FSub(input, FMul(cfg.preemphasis_alpha, p.preemphasis_prev)), LAMBDA output :
      [out |-> output, p |-> [p EXCEPT !.preemphasis_prev = input]])

bandpass_filter(p, input) ==
    Bind(DirectForm(bandpass_coeffs, input,
                    p.bandpass_x1, p.bandpass_x2, p.bandpass_y1, p.bandpass_y2),
         LAMBDA output :
      [out |-> FiniteOrZero(output),
       p |-> [p EXCEPT !.bandpass_x2 = p.bandpass_x1,
                       !.bandpass_x1 = input,
                       !.bandpass_y2 = p.bandpass_y1,
                       !.bandpass_y1 = output]])

\* the three band-split filters return the sample and the four updated cells
apply_lowpass_filter(input, x1, x2, y1, y2) ==
    Bind(DirectForm(lowpass1_coeffs, input, x1, x2, y1, y2), LAMBDA output :
      [out |-> FiniteOrZero(output), x1 |-> input, x2 |-> x1, y1 |-> output, y2 |-> y1])

apply_highpass_filter(input, x1, x2, y1, y2) ==
    Bind(DirectForm(highpass2_coeffs, input, x1, x2, y1, y2), LAMBDA output :
      [out |-> FiniteOrZero(output), x1 |-> input, x2 |-> x1, y1 |-> output, y2 |-> y1])

apply_bandpass_filter(input, x1, x2, y1, y2) ==
    Bind(DirectForm(bandpass2_coeffs, input, x1, x2, y1, y2), LAMBDA output :
      [out |-> FiniteOrZero(output), x1 |-> input, x2 |-> x1, y1 |-> output, y2 |-> y1])

\* split_into_bands with the high-pass filter fed from the low-pass filter's output
split_into_bands_Chained(p, input) ==
    Bind(p.band_filters, LAMBDA f :
    Bind(apply_lowpass_filter(input, f.lowpass1_x1, f.lowpass1_x2,
                              f.lowpass1_y1, f.lowpass1_y2), LAMBDA band1 :
    Bind(apply_highpass_filter(band1.out, f.highpass2_x1, f.highpass2_x2,
                               f.highpass2_y1, f.highpass2_y2), LAMBDA band3 :
    Bind(apply_bandpass_filter(input, f.bandpass2_x1, f.bandpass2_x2,
                               f.bandpass2_y1, f.bandpass2_y2), LAMBDA band2 :
      [band1 |-> band1.out, band2 |-> band2.out, band3 |-> band3.out,
       p |-> [p EXCEPT !.band_filters =
                [lowpass1_x1 |-> band1.x1, lowpass1_x2 |-> band1.x2,
                 lowpass1_y1 |-> band1.y1, lowpass1_y2 |-> band1.y2,
                 highpass2_x1 |-> band3.x1, highpass2_x2 |-> band3.x2,
                 highpass2_y1 |-> band3.y1, highpass2_y2 |-> band3.y2,
                 bandpass2_x1 |-> band2.x1, bandpass2_x2 |-> band2.x2,
                 bandpass2_y1 |-> band2.y1, bandpass2_y2 |-> band2.y2]]]))))

split_into_bands(p, input) ==
    Bind(p.band_filters, LAMBDA f :
    Bind(apply_lowpass_filter(input, f.lowpass1_x1, f.lowpass1_x2,
                              f.lowpass1_y1, f.lowpass1_y2), LAMBDA band1 :
    Bind(apply_highpass_filter(input, f.highpass2_x1, f.highpass2_x2,
                               f.highpass2_y1, f.highpass2_y2), LAMBDA band3 :
    Bind(apply_bandpass_filter(input, f.bandpass2_x1, f.bandpass2_x2,
                               f.bandpass2_y1, f.bandpass2_y2), LAMBDA band2 :
      [band1 |-> band1.out, band2 |-> band2.out, band3 |-> band3.out,
       p |-> [p EXCEPT !.band_filters =
                [lowpass1_x1 |-> band1.x1, lowpass1_x2 |-> band1.x2,
                 lowpass1_y1 |-> band1.y1, lowpass1_y2 |-> band1.y2,
                 highpass2_x1 |-> band3.x1, highpass2_x2 |-> band3.x2,
                 highpass2_y1 |-> band3.y1, highpass2_y2 |-> band3.y2,
                 bandpass2_x1 |-> band2.x1, bandpass2_x2 |-> band2.x2,
                 bandpass2_y1 |-> band2.y1, bandpass2_y2 |-> band2.y2]]]))))

\* 1e-10 is below the resolution of the fixed-point stand-in: it is 0 units
compress_band_active(input, bandcfg, compressor) ==
    Bind(FAbs(input), LAMBDA input_level :
    Bind(IF FGt(input_level, compressor.envelope)
         THEN FAdd(FMul(bandcfg.attack_coeff, compressor.envelope),
                   FMul(FSub(One, bandcfg.attack_coeff), input_level))
         ELSE FAdd(FMul(bandcfg.release_coeff, compressor.envelope),
                   FMul(FSub(One, bandcfg.release_coeff), input_level)), LAMBDA envelope :
    Bind(FMul(bandcfg.target_level, bandcfg.threshold_factor), LAMBDA threshold :
    Bind(FSub(envelope, threshold), LAMBDA excess :
    Bind(IF FLt(excess, bandcfg.knee_width)
         THEN Bind(FDiv(excess, bandcfg.knee_width), LAMBDA knee_factor :
                FAdd(One, FMul(FSub(bandcfg.ratio, One), FMul(knee_factor, knee_factor))))
         ELSE bandcfg.ratio, LAMBDA knee_ratio :
    Bind(FAdd(threshold, FDiv(excess, knee_ratio)), LAMBDA compressed_level :
    Bind(IF FGt(envelope, threshold)
         THEN (IF FGt(envelope, 0) THEN FDiv(compressed_level, envelope) ELSE One)
         ELSE FMin(FDiv(bandcfg.target_level, FAdd(threshold, 0)), 1200), LAMBDA gain :
    Bind(FMul(input, FClamp(gain, 100, 2000)), LAMBDA output :
      [out |-> FiniteOrZero(output), compressor |-> [envelope |-> envelope]]))))))))

\* compress_band without the early return for a disabled band
compress_band_NoBypass(input, bandcfg, compressor) ==
    compress_band_active(input, bandcfg, compressor)

compress_band(input, bandcfg, compressor) ==
    IF ~bandcfg.enabled THEN [out |-> input, compressor |-> compressor]
    ELSE compress_band_active(input, bandcfg, compressor)

three_band_compressor(p, cfg, input) ==
    Bind(split_into_bands(p, input), LAMBDA s :
    Bind(compress_band(s.band1, cfg.band1_compressor, s.p.band1_compressor), LAMBDA c1 :
    Bind(compress_band(s.band2, cfg.band2_compressor, s.p.band2_compressor), LAMBDA c2 :
    Bind(compress_band(s.band3, cfg.band3_compressor, s.p.band3_compressor), LAMBDA c3 :
    Bind(FAdd(FAdd(c1.out, c2.out), c3.out), LAMBDA combined :
      [out |-> FiniteOrZero(combined),
       p |-> [s.p EXCEPT !.band1_compressor = c1.compressor,
                         !.band2_compressor = c2.compressor,
                         !.band3_compressor = c3.compressor]])))))

noise_gate(cfg, input) ==
    IF FLt(FAbs(input), cfg.noise_gate_threshold)
    THEN FMul(input, cfg.noise_gate_ratio)
    ELSE input

soft_limiter(cfg, input) ==
    Bind(cfg.soft_limiter_threshold, LAMBDA threshold :
      IF FGt(FAbs(input), threshold)
      THEN FMul(FMul(threshold, FSignum(input)),
                FSub(One, FExp(FMul(0 - 3 * Scale, FSub(FAbs(input), threshold)))))
      ELSE input)

process_sample(p, cfg, input) ==
    Bind(preemphasis_filter(p, cfg, input), LAMBDA preemphasized :
    Bind(bandpass_filter(preemphasized.p, preemphasized.out), LAMBDA bandpassed :
    Bind(three_band_compressor(bandpassed.p, cfg, bandpassed.out), LAMBDA compressed :
    Bind(noise_gate(cfg, compressed.out), LAMBDA gated :
      [out |-> soft_limiter(cfg, gated), p |-> compressed.p]))))

\* reset() with the compressor envelopes forgotten
reset_KeepsEnvelopes(p) ==
    [p EXCEPT !.preemphasis_prev = 0,
              !.bandpass_x1 = 0, !.bandpass_x2 = 0,
              !.bandpass_y1 = 0, !.bandpass_y2 = 0,
              !.band_filters = BandSplitFilters_new]

reset(p) ==
    [p EXCEPT !.preemphasis_prev = 0,
              !.bandpass_x1 = 0, !.bandpass_x2 = 0,
              !.bandpass_y1 = 0, !.bandpass_y2 = 0,
              !.band_filters.lowpass1_x1 = 0, !.band_filters.lowpass1_x2 = 0,
              !.band_filters.lowpass1_y1 = 0, !.band_filters.lowpass1_y2 = 0,
              !.band_filters.highpass2_x1 = 0, !.band_filters.highpass2_x2 = 0,
              !.band_filters.highpass2_y1 = 0, !.band_filters.highpass2_y2 = 0,
              !.band_filters.bandpass2_x1 = 0, !.band_filters.bandpass2_x2 = 0,
              !.band_filters.bandpass2_y1 = 0, !.band_filters.bandpass2_y2 = 0,
              !.band1_compressor.envelope = 0,
              !.band2_compressor.envelope = 0,
              !.band3_compressor.envelope = 0]

Cells(p) ==
    {p.preemphasis_prev, p.bandpass_x1, p.bandpass_x2, p.bandpass_y1, p.bandpass_y2,
     p.band_filters.lowpass1_x1, p.band_filters.lowpass1_x2,
     p.band_filters.lowpass1_y1, p.band_filters.lowpass1_y2,
     p.band_filters.highpass2_x1, p.band_filters.highpass2_x2,
     p.band_filters.highpass2_y1, p.band_filters.highpass2_y2,
     p.band_filters.bandpass2_x1, p.band_filters.bandpass2_x2,
     p.band_filters.bandpass2_y1, p.band_filters.bandpass2_y2,
     p.band1_compressor.envelope, p.band2_compressor.envelope,
     p.band3_compressor.envelope}

\* every f32 cell of the processor, by name
CellValue(p) ==
    [preemphasis_prev |-> p.preemphasis_prev,
     bandpass_x1 |-> p.bandpass_x1, bandpass_x2 |-> p.bandpass_x2,
     bandpass_y1 |-> p.bandpass_y1, bandpass_y2 |-> p.bandpass_y2,
     lowpass1_x1 |-> p.band_filters.lowpass1_x1, lowpass1_x2 |-> p.band_filters.lowpass1_x2,
     lowpass1_y1 |-> p.band_filters.lowpass1_y1, lowpass1_y2 |-> p.band_filters.lowpass1_y2,
     highpass2_x1 |-> p.band_filters.highpass2_x1, highpass2_x2 |-> p.band_filters.highpass2_x2,
     highpass2_y1 |-> p.band_filters.highpass2_y1, highpass2_y2 |-> p.band_filters.highpass2_y2,
     bandpass2_x1 |-> p.band_filters.bandpass2_x1, bandpass2_x2 |-> p.band_filters.bandpass2_x2,
     bandpass2_y1 |-> p.band_filters.bandpass2_y1, bandpass2_y2 |-> p.band_filters.bandpass2_y2,
     band1_envelope |-> p.band1_compressor.envelope,
     band2_envelope |-> p.band2_compressor.envelope,
     band3_envelope |-> p.band3_compressor.envelope]

\* the cells a statement wrote a new value to
ChangedCells(p, q) == {c \in DOMAIN CellValue(p) : CellValue(p)[c] # CellValue(q)[c]}

\* ------------------------------------------------------------------------
\* IEEE single precision as used for the sample counts of the tone generator:
\* a value is [m, e] standing for m * 2^(-e), with 2^23 <= m < 2^24 (or m = 0),
\* and every operation rounds to nearest, ties to even, as the hardware does
\* ------------------------------------------------------------------------
Mantissa23 == 8388608
Mantissa24 == 16777216

\* the number of binary digits of a natural number below 2^31
BitLength(n) == CHOOSE b \in 0..31 : (b = 0 \/ n >= 2 ^ (b - 1)) /\ (b = 31 \/ n < 2 ^ b)

\* `n as f32` for an integer below 2^24 (exact)
as_f32(n) ==
    IF n = 0 THEN [m |-> 0, e |-> 0]
    ELSE [m |-> n * 2 ^ (24 - BitLength(n)), e |-> 24 - BitLength(n)]

\* q rounded to nearest, ties to even, given the remainder and half the divisor
Mantissa(q, remainder, half) ==
    IF remainder > half \/ (remainder = half /\ q % 2 = 1) THEN q + 1 ELSE q

\* a rounded mantissa that reached 2^24 is 2^23 one binade up
Renormalise(m, e) ==
    IF m = Mantissa24 THEN [m |-> Mantissa23, e |-> e - 1] ELSE [m |-> m, e |-> e]

\* long division, eight binary digits at a time: st.q = floor(n * 2^st.e / d)
\* and st.r is the remainder, until st.q has more than 16 digits
RECURSIVE DivideLoop(_, _)
DivideLoop(st, d) ==
    IF st.q >= 65536 THEN st
    ELSE Bind([q |-> 256 * st.q + ((256 * st.r) \div d),
               r |-> (256 * st.r) % d,
               e |-> st.e + 8], LAMBDA nx : DivideLoop(nx, d))

\* `n as f32 / d` for integers 0 <= n < 2^24 and 0 < d < 2^23: the quotient
\* to 24 digits, rounded by the remainder
f32_div(n, d) ==
    IF n = 0 THEN [m |-> 0, e |-> 0]
    ELSE Bind(DivideLoop([q |-> n \div d, r |-> n % d, e |-> 0], d), LAMBDA st :
         Bind(2 ^ (24 - BitLength(st.q)), LAMBDA scale :
           Renormalise(Mantissa(st.q * scale + ((st.r * scale) \div d),
                                2 * ((st.r * scale) % d), d),
                       st.e + 24 - BitLength(st.q))))

\* the exact product n * x.m of an integer below 2^16 and a mantissa, as
\* hi * 4096 + lo with lo < 4096 (the product itself exceeds 31 bits)
Product(n, x) ==
    Bind(n * (x.m % 4096), LAMBDA low :
      [hi |-> n * (x.m \div 4096) + (low \div 4096), lo |-> low % 4096])

\* `n as f32 * x` for an integer 0 < n < 2^16
f32_mul(n, x) ==
    IF x.m = 0 THEN [m |-> 0, e |-> 0]
    ELSE
    Bind(Product(n, x), LAMBDA p :
    Bind(BitLength(p.hi) - 12, LAMBDA shift :
      IF shift = 0 THEN [m |-> p.hi * 4096 + p.lo, e |-> x.e]
      ELSE IF shift <= 12
      THEN Bind(Mantissa(p.hi * 2 ^ (12 - shift) + (p.lo \div 2 ^ shift),
                         p.lo % 2 ^ shift, 2 ^ (shift - 1)), LAMBDA m :
             Renormalise(m, x.e - shift))
      ELSE Bind(Mantissa(p.hi \div 2 ^ (shift - 12),
                         (p.hi % 2 ^ (shift - 12)) * 2 + (IF p.lo > 0 THEN 1 ELSE 0),
                         2 ^ (shift - 12)), LAMBDA m :
             Renormalise(m, x.e - shift))))

\* `x as usize`: the integer part
as_usize(x) ==
    IF x.e <= 0 THEN x.m * 2 ^ (0 - x.e)
    ELSE IF x.e > 30 THEN 0
    ELSE x.m \div 2 ^ x.e

\* ------------------------------------------------------------------------
\* ToneGenerator
\* ------------------------------------------------------------------------
ToneConfig_default ==
    [frequency |-> 440, amplitude |-> One \div 2, sample_rate |-> 8000,
     duration_seconds |-> as_f32(30)]

\* `(config.sample_rate as f32 * duration_seconds) as usize`
total_samples(sample_rate, duration_seconds) ==
    as_usize(f32_mul(sample_rate, duration_seconds))

\* Ok(samples): the Vec<i16> is kept as its length and the frequencies it is
\* synthesised from
generate_pcm_samples(cfg) ==
    [ok |-> TRUE, len |-> total_samples(cfg.sample_rate, cfg.duration_seconds),
     freqs |-> <<cfg.frequency>>]

generate_streaming_tone(cfg, duration_ms) ==
    generate_pcm_samples([cfg EXCEPT !.duration_seconds = f32_div(duration_ms, 1000)])

NoPair == <<>>

\* the table with the two rightmost columns exchanged
DtmfFrequencies_ColumnsSwapped(digit) ==
    CASE digit = "1" -> <<697, 1209>>
      [] digit = "2" -> <<697, 1336>>
      [] digit = "3" -> <<697, 1633>>
      [] digit = "A" -> <<697, 1477>>
      [] digit = "4" -> <<770, 1209>>
      [] digit = "5" -> <<770, 1336>>
      [] digit = "6" -> <<770, 1633>>
      [] digit = "B" -> <<770, 1477>>
      [] digit = "7" -> <<852, 1209>>
      [] digit = "8" -> <<852, 1336>>
      [] digit = "9" -> <<852, 1633>>
      [] digit = "C" -> <<852, 1477>>
      [] digit = "*" -> <<941, 1209>>
      [] digit = "0" -> <<941, 1336>>
      [] digit = "#" -> <<941, 1633>>
      [] digit = "D" -> <<941, 1477>>
      [] OTHER -> NoPair

\* `match digit { ... }`
DtmfFrequencies(digit) ==
    CASE digit = "1" -> <<697, 1209>>
      [] digit = "2" -> <<697, 1336>>
      [] digit = "3" -> <<697, 1477>>
      [] digit = "A" -> <<697, 1633>>
      [] digit = "4" -> <<770, 1209>>
      [] digit = "5" -> <<770, 1336>>
      [] digit = "6" -> <<770, 1477>>
      [] digit = "B" -> <<770, 1633>>
      [] digit = "7" -> <<852, 1209>>
      [] digit = "8" -> <<852, 1336>>
      [] digit = "9" -> <<852, 1477>>
      [] digit = "C" -> <<852, 1633>>
      [] digit = "*" -> <<941, 1209>>
      [] digit = "0" -> <<941, 1336>>
      [] digit = "#" -> <<941, 1477>>
      [] digit = "D" -> <<941, 1633>>
      [] OTHER -> NoPair

\* anyhow!("Invalid DTMF digit: {}", digit)
InvalidDigit(digit) == [ok |-> FALSE, error |-> <<"Invalid DTMF digit: ", digit>>]

\* generate_dtmf_tone answering a bad digit with the samples of a silent pair
generate_dtmf_tone_SilentOnBadDigit(cfg, digit, duration_ms) ==
    [ok |-> TRUE,
     len |-> total_samples(cfg.sample_rate, f32_div(duration_ms, 1000)),
     freqs |-> IF DtmfFrequencies(digit) = NoPair THEN <<0, 0>> ELSE DtmfFrequencies(digit)]

generate_dtmf_tone(cfg, digit, duration_ms) ==
    IF DtmfFrequencies(digit) = NoPair THEN InvalidDigit(digit)
    ELSE [ok |-> TRUE,
          len |-> total_samples(cfg.sample_rate, f32_div(duration_ms, 1000)),
          freqs |-> DtmfFrequencies(digit)]

generate_comfort_noise(cfg, duration_ms) ==
    [ok |-> TRUE, len |-> total_samples(cfg.sample_rate, f32_div(duration_ms, 1000)),
     freqs |-> <<>>]

\* ------------------------------------------------------------------------
\* CallHandler (call_handler.rs)
\* ------------------------------------------------------------------------
\* the call ids Uuid::new_v4() hands out, one per handle_incoming_call
CallIds == 1..MaxIncomingCalls

\* the tasks that use the handler: task c runs handle_incoming_call for call
\* c and then the auto-answer task it spawned; task 0 calls answer_call and
\* hangup_call directly
Tasks == 0..MaxIncomingCalls

\* CallStatus, in the order of a call's life
CallStatus == <<"Ringing", "Answered", "InProgress", "Hanging", "Terminated">>

\* the average_call_duration field is left out: it is written only in
\* update_statistics, from wall-clock durations, and nothing branches on it
CallStatistics_default ==
    [total_calls |-> 0, answered_calls |-> 0, failed_calls |-> 0, active_calls |-> 0]

\* the keys of the active_calls map; a call id that is not a key is "absent"
Keys(map) == {c \in CallIds : map[c] # "absent"}

saturating_sub(a, b) == IF a >= b THEN a - b ELSE 0

update_statistics(stats, call_completed) ==
    [active_calls   |-> saturating_sub(stats.active_calls, 1),
     failed_calls   |-> IF call_completed THEN stats.failed_calls
                                          ELSE stats.failed_calls + 1,
     total_calls    |-> stats.total_calls,
     answered_calls |-> stats.answered_calls]

\* ------------------------------------------------------------------------
\* HealthMonitor (health_monitor.rs)
\* ------------------------------------------------------------------------
\* an Option<Instant>, kept as the whole seconds elapsed since that instant
None == [some |-> FALSE, elapsed |-> 0]

Some(elapsed) == [some |-> TRUE, elapsed |-> elapsed]

HealthConfig_default ==
    [health_check_interval_seconds |-> 30, max_restart_attempts |-> 3,
     restart_delay_seconds |-> 5]

HealthMonitor_new ==
    [restart_attempts |-> 0, last_restart_time |-> None, server_start_time |-> None]

NoShouldRestartCall == [called |-> FALSE, self |-> HealthMonitor_new, result |-> FALSE]

\* seconds after a restart during which should_restart refuses another one
RestartCooldown == 60

\* an instant as it stands after `seconds` more seconds; the monitor only
\* ever compares elapsed() with RestartCooldown, so elapsed times stop there
Elapse(instant, seconds) ==
    IF instant.some
    THEN Some(IF instant.elapsed + seconds >= RestartCooldown
              THEN RestartCooldown ELSE instant.elapsed + seconds)
    ELSE None

\* should_restart with the check of the last restart's age left out
should_restart_NoCooldown(self, cfg) ==
    self.restart_attempts < cfg.max_restart_attempts

should_restart(self, cfg) ==
    IF self.restart_attempts >= cfg.max_restart_attempts
    THEN FALSE
    ELSE IF self.last_restart_time.some
            /\ self.last_restart_time.elapsed < RestartCooldown
         THEN FALSE
         ELSE TRUE

\* the fields of HealthStatus; serde's derived Deserialize requires each of
\* them and ignores any other
HealthStatusFields ==
    {"status", "uptime_seconds", "active_calls", "total_calls", "memory_usage_mb",
     "cpu_usage_percent"}

\* response.json::<HealthStatus>() on a JSON object with these fields
HealthStatus_from_json(fields) == HealthStatusFields \subseteq fields

\* an HTTP exchange: the status code (0: the request failed or timed out)
\* and the fields of the JSON object in the body
NoAnswer == [status |-> 0, fields |-> {}]

\* what the server's own /health endpoint answers
HealthEndpointResponse ==
    [status |-> 200, fields |-> {"status", "active_calls", "total_calls"}]

\* what the watched URL can answer: nothing, the server's own body, an
\* error status, a body with every field of HealthStatus
Responses ==
    {NoAnswer, HealthEndpointResponse, [status |-> 500, fields |-> {}],
     [status |-> 200, fields |-> HealthStatusFields]}

Servers == [running : BOOLEAN, response : Responses]

check_health(srv) ==
    IF ~srv.running
    THEN "Err"
    ELSE IF srv.response.status = 0
    THEN "Err"
    ELSE IF ~(srv.response.status \in 200..299)
    THEN "Err"
    ELSE IF ~HealthStatus_from_json(srv.response.fields)
    THEN "Err"
    ELSE "Ok"

NoCheck == [result |-> "none", server |-> [running |-> FALSE, response |-> NoAnswer]]

\* ------------------------------------------------------------------------
\* 16-bit integer arithmetic (i16, u8)
\* ------------------------------------------------------------------------
I16 == (0 - 32768)..32767

Pow2(n) == 2 ^ n

\* the i16 holding the low 16 bits of n (two's complement wrap-around)
WrapI16(n) == ((n + 32768) % 65536) - 32768

\* the bits of an i16 as a number in 0..65535
Bits16(n) == n % 65536

\* `x >> n` on i16: arithmetic shift
Shr(x, n) == x \div Pow2(n)

RECURSIVE BitOr(_, _)
BitOr(a, b) ==
    IF a = 0 THEN b
    ELSE IF b = 0 THEN a
    ELSE 2 * BitOr(a \div 2, b \div 2) + (IF a % 2 = 1 \/ b % 2 = 1 THEN 1 ELSE 0)

RECURSIVE BitXor(_, _)
BitXor(a, b) ==
    IF a = 0 THEN b
    ELSE IF b = 0 THEN a
    ELSE 2 * BitXor(a \div 2, b \div 2) + (IF (a % 2) # (b % 2) THEN 1 ELSE 0)

\* `a | b` on i16
OrI16(a, b) == WrapI16(BitOr(Bits16(a), Bits16(b)))

\* `x as u8`
AsU8(x) == x % 256

\* `!x` on i16
NotI16(x) == 0 - x - 1

\* outcome of a call: the byte returned, or a panic
Byte(b) == [kind |-> "byte", byte |-> b]
Panic == [kind |-> "panic", byte |-> 0]
NotEncoded == [kind |-> "none", byte |-> 0]

\* `-sample` on i16: overflows for i16::MIN, which panics when the build
\* checks overflow and wraps to i16::MIN when it does not
NegOverflows(s) == s = 0 - 32768

\* ------------------------------------------------------------------------
\* ToneGenerator::linear_to_mulaw, Mp3Handler::linear_to_mulaw
\* ------------------------------------------------------------------------
MulawExponent(s) ==
    IF s >= 32767 THEN 7
    ELSE IF s >= 16384 THEN 6
    ELSE IF s >= 8192 THEN 5
    ELSE IF s >= 4096 THEN 4
    ELSE IF s >= 2048 THEN 3
    ELSE IF s >= 1024 THEN 2
    ELSE IF s >= 512 THEN 1
    ELSE 0

\* `!mulaw as u8` of a zero sample yields 0xFF only with the inversion
MulawPack_NoInvert(sign, exponent, mantissa) ==
    AsU8(OrI16(OrI16(sign, exponent * 16), mantissa))

MulawPack(sign, exponent, mantissa) ==
    AsU8(NotI16(OrI16(OrI16(sign, exponent * 16), mantissa)))

linear_to_mulaw(pcm, checks) ==
    LET BIAS == 132
        CLIP == 32635
        sign == IF pcm < 0 THEN 128 ELSE 0
        s1 == IF pcm < 0 THEN WrapI16(0 - pcm) ELSE pcm
        s2 == IF s1 > CLIP THEN CLIP ELSE s1
        s3 == s2 + BIAS
        exponent == MulawExponent(s3)
        mantissa == Shr(s3, exponent + 3) % 16
    IN IF NegOverflows(pcm) /\ checks THEN Panic
       ELSE Byte(MulawPack(sign, exponent, mantissa))

\* ------------------------------------------------------------------------
\* ToneGenerator::linear_to_alaw
\* ------------------------------------------------------------------------
AlawExponent(s) ==
    IF s >= 16384 THEN 7
    ELSE IF s >= 8192 THEN 6
    ELSE IF s >= 4096 THEN 5
    ELSE IF s >= 2048 THEN 4
    ELSE IF s >= 1024 THEN 3
    ELSE IF s >= 512 THEN 2
    ELSE IF s >= 256 THEN 1
    ELSE 0

AlawPack(sign, exponent, mantissa) ==
    BitXor(AsU8(OrI16(OrI16(sign, exponent * 16), mantissa)), 85)

linear_to_alaw(pcm, checks) ==
    LET ALAW_MAX == 32767
        sign == IF pcm < 0 THEN 128 ELSE 0
        s1 == IF pcm < 0 THEN WrapI16(0 - pcm) ELSE pcm
        s2 == IF s1 > ALAW_MAX THEN ALAW_MAX ELSE s1
        exponent == AlawExponent(s2)
        mantissa == IF exponent = 0 THEN Shr(s2, 4) ELSE Shr(s2, exponent + 3) % 16
    IN IF NegOverflows(pcm) /\ checks THEN Panic
       ELSE Byte(AlawPack(sign, exponent, mantissa))

\* ------------------------------------------------------------------------
\* SimpleResampler
\* ------------------------------------------------------------------------
\* position is the f64 phase accumulator; it only ever holds multiples of
\* target_rate/source_rate minus whole numbers, so it is kept exactly, as
\* the numerator of a fraction over source_rate.
Resampler_new(source_rate, target_rate) ==
    [source_rate |-> source_rate, target_rate |-> target_rate,
     position |-> 0, last_sample |-> 0]

\* process_sample without decimation: one output for every input
Resampler_process_sample_EveryInput(r, input_sample) ==
    LET interpolated == FAdd(r.last_sample, FMul(FSub(input_sample, r.last_sample), 500))
    IN [output_samples |-> <<interpolated>>,
        r |-> [r EXCEPT !.position = r.position + r.target_rate,
                        !.last_sample = input_sample]]

\* process_sample that emits every sample that is due (`while`, not `if`)
Resampler_process_sample_Loop(r, input_sample) ==
    LET position == r.position + r.target_rate
        due == position \div r.source_rate
        interpolated == FAdd(r.last_sample, FMul(FSub(input_sample, r.last_sample), 500))
    IN [output_samples |-> [i \in 1..due |-> interpolated],
        r |-> [r EXCEPT !.position = position - due * r.source_rate,
                        !.last_sample = input_sample]]

Resampler_process_sample(r, input_sample) ==
    LET position == r.position + r.target_rate
        emit == position >= r.source_rate
        interpolated == FAdd(r.last_sample, FMul(FSub(input_sample, r.last_sample), 500))
    IN [output_samples |-> IF emit THEN <<interpolated>> ELSE <<>>,
        r |-> [r EXCEPT !.position = IF emit THEN position - r.source_rate ELSE position,
                        !.last_sample = input_sample]]

\* (source_rate, target_rate) pairs: the documented 44100 -> 8000, equal
\* rates, and two upsampling ratios
RatePairs == {<<44100, 8000>>, <<8000, 8000>>, <<8000, 16000>>, <<8000, 44100>>}

\* ------------------------------------------------------------------------
\* Mp3Handler::convert_mp3_to_wav, Mp3Handler::read_wav_samples
\* ------------------------------------------------------------------------
NoFile == [exists |-> FALSE, samples |-> <<>>, complete |-> FALSE, created_by |-> 0]

NotRead == [kind |-> "none", samples |-> <<>>, complete |-> FALSE]

\* `(processed_sample * 32767.0).clamp(-32768.0, 32767.0) as i16`
SampleToI16(processed) ==
    IF IsNaN(processed) THEN 0
    ELSE IF processed > One THEN 32767
    ELSE IF processed < 0 - One THEN 0 - 32768
    ELSE IF processed < 0 THEN 0 - ((Abs(processed) * 32767) \div Scale)
    ELSE (processed * 32767) \div Scale

\* channel 0 of the decoded packets the source can yield
Buffers == {<<One>>, <<One, 0 - One>>}

\* sample rates of the source track; the target rate is audio_sample_rate
SourceRates == {8000, 16000}
target_sample_rate == 8000

\* ------------------------------------------------------------------------
\* State machines
\* ------------------------------------------------------------------------
ProcIdle ==
    /\ config = DefaultAudioProcessingConfig
    /\ proc = TelephonyAudioProcessor_new
    /\ twin = TelephonyAudioProcessor_new
    /\ out = 0
    /\ twinOut = 0
    /\ calls = 0
    /\ resets = 0
    /\ sinceReset = 0
    /\ beforeReset = TelephonyAudioProcessor_new

CodecIdle ==
    /\ overflow_checks = FALSE
    /\ sample = 0
    /\ mulaw = NotEncoded
    /\ mp3_mulaw = NotEncoded
    /\ alaw = NotEncoded
    /\ first = <<NotEncoded, NotEncoded, NotEncoded>>
    /\ encodes = 0

RsIdle ==
    /\ resampler = Resampler_new(44100, 8000)
    /\ rs_output = <<>>
    /\ rs_calls = 0
    /\ rs_emitted = 0
    /\ rs_input = 0
    /\ rs_prev_input = 0

ConvIdle ==
    /\ wav_file = NoFile
    /\ conv_pc = "idle"
    /\ conv_result = "none"
    /\ conv_failed = FALSE
    /\ conv_calls = 0
    /\ packets = 0
    /\ audio_buf = <<>>
    /\ sample_count = 0
    /\ read_result = NotRead

NotComputed == <<>>

LimIdle ==
    /\ lim_cfg = DefaultAudioProcessingConfig
    /\ lim_a = 0
    /\ lim_b = 0
    /\ lim_out = NotComputed

BandIdle ==
    /\ band_input = 0
    /\ band_config = Band1Default
    /\ band_compressor = BandCompressor_new
    /\ band_result = NotComputed

\* the locals of process_sample, three_band_compressor and split_into_bands
NoLocals ==
    [input |-> 0, preemphasized |-> 0, bandpassed |-> 0,
     band1 |-> 0, band2 |-> 0, band3 |-> 0,
     compressed_band1 |-> 0, compressed_band2 |-> 0, compressed_band3 |-> 0,
     compressed |-> 0, gated |-> 0]

PipeIdle ==
    /\ pipe_config = DefaultAudioProcessingConfig
    /\ pipe_proc = TelephonyAudioProcessor_new
    /\ pipe_pc = "return"
    /\ pipe_locals = NoLocals
    /\ pipe_log = <<>>
    /\ pipe_entry = TelephonyAudioProcessor_new
    /\ pipe_out = 0
    /\ pipe_calls = 0

ToneIdle ==
    /\ tone_config = ToneConfig_default
    /\ is_generating = FALSE
    /\ tone_pc = "idle"
    /\ tone_local = ToneConfig_default
    /\ tone_result = NotComputed

CfgIdle ==
    /\ server_config = DefaultAudioProcessingConfig
    /\ validate_result = "not called"
    /\ main_pc = "loaded"
    /\ mp3_handler = NotComputed

\* the CallHandler as CallHandler::new builds it, no call arrived
CallIdle ==
    /\ max_concurrent_calls = 100
    /\ active_calls = [c \in CallIds |-> "absent"]
    /\ statistics = CallStatistics_default
    /\ call_pc = [t \in Tasks |-> IF t = 0 THEN "idle" ELSE "not arrived"]
    /\ direct = 0
    /\ call_result = [c \in CallIds |-> "none"]
    /\ answered_ids = {}
    /\ direct_calls = 0

\* the HealthMonitor as HealthMonitor::new builds it, run() not called
MonIdle ==
    /\ health_config = HealthConfig_default
    /\ monitor = HealthMonitor_new
    /\ mon_pc = "new"
    /\ server = [running |-> FALSE, response |-> NoAnswer]
    /\ last_check = NoCheck
    /\ should_restart_call = NoShouldRestartCall
    /\ restart_calls = 0

SvcIdle ==
    /\ CallIdle
    /\ MonIdle

FnIdle ==
    /\ LimIdle
    /\ BandIdle
    /\ PipeIdle
    /\ ToneIdle
    /\ CfgIdle
    /\ SvcIdle

\* ---- TelephonyAudioProcessor: process_sample and reset on one instance
\* finite inputs handed to process_sample: both ends of the range, the
\* nominal full scale, a level below the noise gate, and silence
Inputs == {0 - FMax, 0 - One, 0, 5, One, FMax}

ProcInit ==
    /\ config \in ValidatedConfigs
    /\ proc = TelephonyAudioProcessor_new
    /\ twin = TelephonyAudioProcessor_new
    /\ out = 0
    /\ twinOut = 0
    /\ calls = 0
    /\ resets = 0
    /\ sinceReset = 0
    /\ beforeReset = TelephonyAudioProcessor_new
    /\ CodecIdle
    /\ RsIdle
    /\ ConvIdle
    /\ FnIdle

ProcessSample ==
    /\ calls < MaxCalls
    /\ \E input \in Inputs :
         /\ proc' = process_sample(proc, config, input).p
         /\ out' = process_sample(proc, config, input).out
         /\ twin' = process_sample(twin, config, input).p
         /\ twinOut' = process_sample(twin, config, input).out
    /\ calls' = calls + 1
    /\ sinceReset' = sinceReset + 1
    /\ UNCHANGED <<config, resets, beforeReset>>
    /\ UNCHANGED <<codecVars, rsVars, convVars, fnVars>>

Reset ==
    /\ resets < MaxResets
    /\ proc' = reset(proc)
    /\ twin' = TelephonyAudioProcessor_new
    /\ resets' = resets + 1
    /\ sinceReset' = 0
    /\ beforeReset' = proc
    /\ UNCHANGED <<config, out, twinOut, calls>>
    /\ UNCHANGED <<codecVars, rsVars, convVars, fnVars>>

ProcNext == ProcessSample \/ Reset

SpecProcessor == ProcInit /\ [][ProcNext]_vars


\* ---- ToneGenerator::pcm_to_mulaw / pcm_to_alaw and Mp3Handler::pcm_to_mulaw
\* on one sample, for every 16-bit sample and both build profiles
CodecInit ==
    /\ overflow_checks \in BOOLEAN
    /\ \E bits \in 0..65535 : sample = WrapI16(bits)
    /\ mulaw = NotEncoded
    /\ mp3_mulaw = NotEncoded
    /\ alaw = NotEncoded
    /\ first = <<NotEncoded, NotEncoded, NotEncoded>>
    /\ encodes = 0
    /\ ProcIdle
    /\ RsIdle
    /\ ConvIdle
    /\ FnIdle

PcmToCompanded ==
    /\ encodes < MaxEncodes
    /\ mulaw' = linear_to_mulaw(sample, overflow_checks)
    /\ mp3_mulaw' = linear_to_mulaw(sample, overflow_checks)
    /\ alaw' = linear_to_alaw(sample, overflow_checks)
    /\ first' = IF encodes = 0 THEN <<mulaw', mp3_mulaw', alaw'>> ELSE first
    /\ encodes' = encodes + 1
    /\ UNCHANGED <<overflow_checks, sample>>
    /\ UNCHANGED <<procVars, rsVars, convVars, fnVars>>

CodecNext == PcmToCompanded

SpecCodec == CodecInit /\ [][CodecNext]_vars

\* ---- SimpleResampler: a stream of process_sample calls on one instance
RsInit ==
    /\ \E rates \in RatePairs : resampler = Resampler_new(rates[1], rates[2])
    /\ rs_output = <<>>
    /\ rs_calls = 0
    /\ rs_emitted = 0
    /\ rs_input = 0
    /\ rs_prev_input = 0
    /\ ProcIdle
    /\ CodecIdle
    /\ ConvIdle
    /\ FnIdle

ResampleSample ==
    /\ rs_calls < MaxResamplerCalls
    /\ \E input_sample \in Inputs :
         /\ resampler' = Resampler_process_sample(resampler, input_sample).r
         /\ rs_output' = Resampler_process_sample(resampler, input_sample).output_samples
         /\ rs_input' = input_sample
    /\ rs_prev_input' = rs_input
    /\ rs_calls' = rs_calls + 1
    /\ rs_emitted' = rs_emitted + Len(rs_output')
    /\ UNCHANGED <<procVars, codecVars, convVars, fnVars>>

RsNext == ResampleSample

SpecResampler == RsInit /\ [][RsNext]_vars

\* ---- TelephonyAudioProcessor::soft_limiter as a function of its input and
\* of soft_limiter_threshold, a field ServerConfig::validate does not check
LimiterInputs ==
    {k * 50 : k \in (0 - MaxLimiterSteps)..MaxLimiterSteps} \cup {0 - FMax, FMax}

LimiterThresholds == {0 - 500, 0, 500, 900, One, FMax, PInf, NaN}

LimInit ==
    /\ \E threshold \in LimiterThresholds :
         lim_cfg = [DefaultAudioProcessingConfig EXCEPT !.soft_limiter_threshold = threshold]
    /\ validate(lim_cfg)
    /\ lim_a \in LimiterInputs
    /\ lim_b \in LimiterInputs
    /\ lim_out = NotComputed
    /\ SvcIdle
    /\ ProcIdle
    /\ CodecIdle
    /\ RsIdle
    /\ ConvIdle
    /\ BandIdle
    /\ PipeIdle
    /\ ToneIdle
    /\ CfgIdle

SoftLimit ==
    /\ lim_out = NotComputed
    /\ lim_out' = <<soft_limiter(lim_cfg, lim_a), soft_limiter(lim_cfg, lim_b)>>
    /\ UNCHANGED <<lim_cfg, lim_a, lim_b>>
    /\ UNCHANGED <<procVars, codecVars, rsVars, convVars, bandVars, pipeVars, toneVars, cfgVars, svcVars>>

LimNext == SoftLimit

SpecLimiter == LimInit /\ [][LimNext]_vars

\* ---- TelephonyAudioProcessor::compress_band as a function of the band's
\* sample, its configuration and its envelope
BandInputs == Inputs \cup {PInf, NInf, NaN}

BandConfigs ==
    {[band EXCEPT !.enabled = enabled] :
        band \in {Band1Default, Band2Default, Band3Default}, enabled \in BOOLEAN}

Envelopes == {0, 5, One, FMax, PInf, NaN}

BandInit ==
    /\ band_input \in BandInputs
    /\ band_config \in BandConfigs
    /\ \E envelope \in Envelopes : band_compressor = [envelope |-> envelope]
    /\ band_result = NotComputed
    /\ SvcIdle
    /\ ProcIdle
    /\ CodecIdle
    /\ RsIdle
    /\ ConvIdle
    /\ LimIdle
    /\ PipeIdle
    /\ ToneIdle
    /\ CfgIdle

CompressBand ==
    /\ band_result = NotComputed
    /\ band_result' = compress_band(band_input, band_config, band_compressor)
    /\ band_compressor' = band_result'.compressor
    /\ UNCHANGED <<band_input, band_config>>
    /\ UNCHANGED <<procVars, codecVars, rsVars, convVars, limVars, pipeVars, toneVars, cfgVars, svcVars>>

BandNext == CompressBand

SpecBand == BandInit /\ [][BandNext]_vars

\* ---- TelephonyAudioProcessor::process_sample followed one statement at a
\* time through three_band_compressor and split_into_bands
PipeInit ==
    /\ pipe_config \in ValidatedConfigs
    /\ pipe_proc = TelephonyAudioProcessor_new
    /\ pipe_pc = "return"
    /\ pipe_locals = NoLocals
    /\ pipe_log = <<>>
    /\ pipe_entry = TelephonyAudioProcessor_new
    /\ pipe_out = 0
    /\ pipe_calls = 0
    /\ SvcIdle
    /\ ProcIdle
    /\ CodecIdle
    /\ RsIdle
    /\ ConvIdle
    /\ LimIdle
    /\ BandIdle
    /\ ToneIdle
    /\ CfgIdle

\* a statement ran: it took `inputs`, produced `output` and left self as `q`
Ran(stage, next, inputs, output, q) ==
    /\ pipe_pc = stage
    /\ pipe_pc' = next
    /\ pipe_proc' = q
    /\ pipe_log' = Append(pipe_log, [stage |-> stage, inputs |-> inputs, output |-> output,
                                     changed |-> ChangedCells(pipe_proc, q)])
    /\ UNCHANGED <<pipe_config, pipe_entry, pipe_calls>>
    /\ UNCHANGED <<procVars, codecVars, rsVars, convVars, limVars, bandVars, toneVars, cfgVars, svcVars>>

PipeCall ==
    /\ pipe_pc = "return"
    /\ pipe_calls < MaxPipelineCalls
    /\ \E input \in Inputs : pipe_locals' = [NoLocals EXCEPT !.input = input]
    /\ pipe_pc' = "preemphasis_filter"
    /\ pipe_log' = <<>>
    /\ pipe_entry' = pipe_proc
    /\ pipe_calls' = pipe_calls + 1
    /\ UNCHANGED <<pipe_config, pipe_proc, pipe_out>>
    /\ UNCHANGED <<procVars, codecVars, rsVars, convVars, limVars, bandVars, toneVars, cfgVars, svcVars>>

PipePreemphasis ==
    \E r \in {preemphasis_filter(pipe_proc, pipe_config, pipe_locals.input)} :
      /\ Ran("preemphasis_filter", "bandpass_filter", <<pipe_locals.input>>, r.out, r.p)
      /\ pipe_locals' = [pipe_locals EXCEPT !.preemphasized = r.out]
      /\ UNCHANGED pipe_out

PipeBandpass ==
    \E r \in {bandpass_filter(pipe_proc, pipe_locals.preemphasized)} :
      /\ Ran("bandpass_filter", "apply_lowpass_filter", <<pipe_locals.preemphasized>>,
             r.out, r.p)
      /\ pipe_locals' = [pipe_locals EXCEPT !.bandpassed = r.out]
      /\ UNCHANGED pipe_out

PipeLowpass ==
    \E f \in {pipe_proc.band_filters} :
    \E r \in {apply_lowpass_filter(pipe_locals.bandpassed, f.lowpass1_x1, f.lowpass1_x2,
                                   f.lowpass1_y1, f.lowpass1_y2)} :
      /\ Ran("apply_lowpass_filter", "apply_highpass_filter", <<pipe_locals.bandpassed>>,
             r.out,
             [pipe_proc EXCEPT !.band_filters.lowpass1_x1 = r.x1,
                               !.band_filters.lowpass1_x2 = r.x2,
                               !.band_filters.lowpass1_y1 = r.y1,
                               !.band_filters.lowpass1_y2 = r.y2])
      /\ pipe_locals' = [pipe_locals EXCEPT !.band1 = r.out]
      /\ UNCHANGED pipe_out

PipeHighpass ==
    \E f \in {pipe_proc.band_filters} :
    \E r \in {apply_highpass_filter(pipe_locals.bandpassed, f.highpass2_x1, f.highpass2_x2,
                                    f.highpass2_y1, f.highpass2_y2)} :
      /\ Ran("apply_highpass_filter", "apply_bandpass_filter", <<pipe_locals.bandpassed>>,
             r.out,
             [pipe_proc EXCEPT !.band_filters.highpass2_x1 = r.x1,
                               !.band_filters.highpass2_x2 = r.x2,
                               !.band_filters.highpass2_y1 = r.y1,
                               !.band_filters.highpass2_y2 = r.y2])
      /\ pipe_locals' = [pipe_locals EXCEPT !.band3 = r.out]
      /\ UNCHANGED pipe_out

PipeBandpass2 ==
    \E f \in {pipe_proc.band_filters} :
    \E r \in {apply_bandpass_filter(pipe_locals.bandpassed, f.bandpass2_x1, f.bandpass2_x2,
                                    f.bandpass2_y1, f.bandpass2_y2)} :
      /\ Ran("apply_bandpass_filter", "compress_band1", <<pipe_locals.bandpassed>>,
             r.out,
             [pipe_proc EXCEPT !.band_filters.bandpass2_x1 = r.x1,
                               !.band_filters.bandpass2_x2 = r.x2,
                               !.band_filters.bandpass2_y1 = r.y1,
                               !.band_filters.bandpass2_y2 = r.y2])
      /\ pipe_locals' = [pipe_locals EXCEPT !.band2 = r.out]
      /\ UNCHANGED pipe_out

PipeCompressBand1 ==
    \E r \in {compress_band(pipe_locals.band1, pipe_config.band1_compressor,
                            pipe_proc.band1_compressor)} :
      /\ Ran("compress_band1", "compress_band2", <<pipe_locals.band1>>, r.out,
             [pipe_proc EXCEPT !.band1_compressor = r.compressor])
      /\ pipe_locals' = [pipe_locals EXCEPT !.compressed_band1 = r.out]
      /\ UNCHANGED pipe_out

PipeCompressBand2 ==
    \E r \in {compress_band(pipe_locals.band2, pipe_config.band2_compressor,
                            pipe_proc.band2_compressor)} :
      /\ Ran("compress_band2", "compress_band3", <<pipe_locals.band2>>, r.out,
             [pipe_proc EXCEPT !.band2_compressor = r.compressor])
      /\ pipe_locals' = [pipe_locals EXCEPT !.compressed_band2 = r.out]
      /\ UNCHANGED pipe_out

PipeCompressBand3 ==
    \E r \in {compress_band(pipe_locals.band3, pipe_config.band3_compressor,
                            pipe_proc.band3_compressor)} :
      /\ Ran("compress_band3", "combine", <<pipe_locals.band3>>, r.out,
             [pipe_proc EXCEPT !.band3_compressor = r.compressor])
      /\ pipe_locals' = [pipe_locals EXCEPT !.compressed_band3 = r.out]
      /\ UNCHANGED pipe_out

PipeCombine ==
    \E combined \in {FAdd(FAdd(pipe_locals.compressed_band1, pipe_locals.compressed_band2),
                          pipe_locals.compressed_band3)} :
      /\ Ran("combine", "noise_gate",
             <<pipe_locals.compressed_band1, pipe_locals.compressed_band2,
               pipe_locals.compressed_band3>>,
             FiniteOrZero(combined), pipe_proc)
      /\ pipe_locals' = [pipe_locals EXCEPT !.compressed = FiniteOrZero(combined)]
      /\ UNCHANGED pipe_out

PipeNoiseGate ==
    \E gated \in {noise_gate(pipe_config, pipe_locals.compressed)} :
      /\ Ran("noise_gate", "soft_limiter", <<pipe_locals.compressed>>, gated, pipe_proc)
      /\ pipe_locals' = [pipe_locals EXCEPT !.gated = gated]
      /\ UNCHANGED pipe_out

PipeSoftLimiter ==
    \E limited \in {soft_limiter(pipe_config, pipe_locals.gated)} :
      /\ Ran("soft_limiter", "return", <<pipe_locals.gated>>, limited, pipe_proc)
      /\ pipe_out' = limited
      /\ UNCHANGED pipe_locals

PipeNext ==
    \/ PipeCall
    \/ PipePreemphasis
    \/ PipeBandpass
    \/ PipeLowpass
    \/ PipeHighpass
    \/ PipeBandpass2
    \/ PipeCompressBand1
    \/ PipeCompressBand2
    \/ PipeCompressBand3
    \/ PipeCombine
    \/ PipeNoiseGate
    \/ PipeSoftLimiter

SpecPipeline == PipeInit /\ [][PipeNext]_vars

\* ---- ToneGenerator: tasks sharing one generator call set_config,
\* generate_tone (which holds is_generating while it runs), stop_generation,
\* generate_streaming_tone, generate_dtmf_tone and generate_comfort_noise
SampleRates == {8000, 44100}

\* 30.0 (the default) and 0.1 (the tests)
ConfigDurations == {as_f32(30), f32_div(100, 1000)}

ToneConfigs ==
    {[ToneConfig_default EXCEPT !.sample_rate = sample_rate,
                                !.duration_seconds = duration_seconds] :
        sample_rate \in SampleRates, duration_seconds \in ConfigDurations}

DurationsMs == {0, 7, 100, 251}

DtmfDigits ==
    {"0", "1", "2", "3", "4", "5", "6", "7", "8", "9", "A", "B", "C", "D", "*", "#"}

Chars == DtmfDigits \cup {"a", " "}

ToneInit ==
    /\ tone_config \in ToneConfigs
    /\ is_generating = FALSE
    /\ tone_pc = "idle"
    /\ tone_local = ToneConfig_default
    /\ tone_result = NotComputed
    /\ SvcIdle
    /\ ProcIdle
    /\ CodecIdle
    /\ RsIdle
    /\ ConvIdle
    /\ LimIdle
    /\ BandIdle
    /\ PipeIdle
    /\ CfgIdle

toneRest == <<procVars, codecVars, rsVars, convVars, limVars, bandVars, pipeVars, cfgVars,
             svcVars>>

\* what a call was, the sample rate it read from the configuration, and what
\* it returned
Call(op, cfg, digit, duration_seconds, returned) ==
    [op |-> op, sample_rate |-> cfg.sample_rate, digit |-> digit,
     duration_seconds |-> duration_seconds, returned |-> returned]

SetConfig ==
    /\ tone_config' \in ToneConfigs
    /\ UNCHANGED <<is_generating, tone_pc, tone_local, tone_result>>
    /\ UNCHANGED toneRest

GenerateToneBegin ==
    /\ tone_pc = "idle"
    /\ tone_local' = tone_config
    /\ is_generating' = TRUE
    /\ tone_pc' = "generating"
    /\ UNCHANGED <<tone_config, tone_result>>
    /\ UNCHANGED toneRest

GenerateToneEnd ==
    /\ tone_pc = "generating"
    /\ tone_result' = Call("generate_tone", tone_local, "", tone_local.duration_seconds,
                           generate_pcm_samples(tone_local))
    /\ is_generating' = FALSE
    /\ tone_pc' = "idle"
    /\ tone_local' = ToneConfig_default
    /\ UNCHANGED tone_config
    /\ UNCHANGED toneRest

StopGeneration ==
    /\ is_generating' = FALSE
    /\ UNCHANGED <<tone_config, tone_pc, tone_local, tone_result>>
    /\ UNCHANGED toneRest

GenerateStreamingTone ==
    /\ \E duration_ms \in DurationsMs :
         tone_result' = Call("generate_streaming_tone", tone_config, "", [ms |-> duration_ms],
                             generate_streaming_tone(tone_config, duration_ms))
    /\ UNCHANGED <<tone_config, is_generating, tone_pc, tone_local>>
    /\ UNCHANGED toneRest

GenerateDtmfTone ==
    /\ \E digit \in Chars, duration_ms \in DurationsMs :
         tone_result' = Call("generate_dtmf_tone", tone_config, digit, [ms |-> duration_ms],
                             generate_dtmf_tone(tone_config, digit, duration_ms))
    /\ UNCHANGED <<tone_config, is_generating, tone_pc, tone_local>>
    /\ UNCHANGED toneRest

GenerateComfortNoise ==
    /\ \E duration_ms \in DurationsMs :
         tone_result' = Call("generate_comfort_noise", tone_config, "", [ms |-> duration_ms],
                             generate_comfort_noise(tone_config, duration_ms))
    /\ UNCHANGED <<tone_config, is_generating, tone_pc, tone_local>>
    /\ UNCHANGED toneRest

ToneNext ==
    \/ SetConfig
    \/ GenerateToneBegin
    \/ GenerateToneEnd
    \/ StopGeneration
    \/ GenerateStreamingTone
    \/ GenerateDtmfTone
    \/ GenerateComfortNoise

SpecTone == ToneInit /\ [][ToneNext]_vars

\* ---- server start-up: a configuration file is loaded, validated, and only
\* then is the Mp3Handler with its TelephonyAudioProcessor built
\* field values a configuration file may give a band: the ends of the ranges
\* validate_compressor_band tests, values just outside them, and nan (the
\* coefficients of a band are not looked at before a sample is processed)
Bands ==
    {[Band1Default EXCEPT !.target_level = target_level,
                          !.attack_time = attack_time,
                          !.release_time = release_time,
                          !.ratio = ratio,
                          !.threshold_factor = threshold_factor,
                          !.knee_width = knee_width] :
        target_level \in {0, 1, One, One + 1, NaN},
        attack_time \in {0, 10, One, 2 * One, 5 * One + 1, NaN},
        release_time \in {0, 5 * One, 5 * One + 1},
        ratio \in {One - 1, One, 20 * One, 20 * One + 1},
        threshold_factor \in {0 - 1, 0, One, One + 1},
        knee_width \in {0 - 1, 0, One, One + 1}}

CfgInit ==
    /\ \E band \in Bands :
         server_config \in
            {[DefaultAudioProcessingConfig EXCEPT !.band1_compressor = band],
             [DefaultAudioProcessingConfig EXCEPT !.band2_compressor = band],
             [DefaultAudioProcessingConfig EXCEPT !.band3_compressor = band]}
    /\ validate_result = "not called"
    /\ main_pc = "loaded"
    /\ mp3_handler = NotComputed
    /\ SvcIdle
    /\ ProcIdle
    /\ CodecIdle
    /\ RsIdle
    /\ ConvIdle
    /\ LimIdle
    /\ BandIdle
    /\ PipeIdle
    /\ ToneIdle

cfgRest == <<procVars, codecVars, rsVars, convVars, limVars, bandVars, pipeVars, toneVars,
            svcVars>>

\* `server_config.validate()?`
Validate ==
    /\ main_pc = "loaded"
    /\ validate_result' = IF validate(server_config) THEN "Ok" ELSE "Err"
    /\ main_pc' = IF validate(server_config) THEN "validated" ELSE "exited"
    /\ UNCHANGED <<server_config, mp3_handler>>
    /\ UNCHANGED cfgRest

\* `Mp3Handler::new`, which builds TelephonyAudioProcessor::new(8000.0, config)
Mp3Handler_new ==
    /\ main_pc = "validated"
    /\ mp3_handler' = [audio_processor |-> TelephonyAudioProcessor_new,
                       config |-> server_config]
    /\ main_pc' = "running"
    /\ UNCHANGED <<server_config, validate_result>>
    /\ UNCHANGED cfgRest

CfgNext ==
    \/ Validate
    \/ Mp3Handler_new

SpecConfig == CfgInit /\ [][CfgNext]_vars

\* ---- CallHandler: concurrent handle_incoming_call invocations, the
\*      auto-answer task each accepted call spawns, and a task that calls
\*      answer_call and hangup_call directly. One action per critical section:
\*      a task can be overtaken wherever it awaits a lock or a sleep.
callRest == <<procVars, codecVars, rsVars, convVars, limVars, bandVars, pipeVars, toneVars,
             cfgVars, monVars>>

CallInit ==
    /\ max_concurrent_calls \in 1..MaxIncomingCalls
    /\ active_calls = [c \in CallIds |-> "absent"]
    /\ statistics = CallStatistics_default
    /\ call_pc = [t \in Tasks |-> IF t = 0 THEN "idle" ELSE "not arrived"]
    /\ direct = 0
    /\ call_result = [c \in CallIds |-> "none"]
    /\ answered_ids = {}
    /\ direct_calls = 0
    /\ ProcIdle
    /\ CodecIdle
    /\ RsIdle
    /\ ConvIdle
    /\ LimIdle
    /\ BandIdle
    /\ PipeIdle
    /\ ToneIdle
    /\ CfgIdle
    /\ MonIdle

\* the call a task's answer_call / hangup_call is about
Target(t) == IF t = 0 THEN direct ELSE t

\* where a task goes when the function it is in returns Err: the direct
\* caller gets the error back, the auto-answer task logs it and ends
Failed(t) == IF t = 0 THEN "idle" ELSE "task failed"

\* handle_incoming_call holds the read lock of active_calls while it awaits
\* update_statistics on the rejection path; writers wait for it
ReadLockHeld == \E c \in CallIds : call_pc[c] = "handle_incoming_call:rejecting"

\* the capacity check under the read lock; call ids are handed out in order
handle_incoming_call_check(c) ==
    /\ call_pc[c] = "not arrived"
    /\ c = 1 \/ call_pc[c - 1] # "not arrived"
    /\ call_pc' = [call_pc EXCEPT ![c] =
           IF Cardinality(Keys(active_calls)) >= max_concurrent_calls
           THEN "handle_incoming_call:rejecting"
           ELSE "handle_incoming_call:insert"]
    /\ UNCHANGED <<max_concurrent_calls, active_calls, statistics, direct, call_result,
                   answered_ids, direct_calls, callRest>>

handle_incoming_call_reject(c) ==
    /\ call_pc[c] = "handle_incoming_call:rejecting"
    /\ statistics' = update_statistics(statistics, FALSE)
    /\ call_result' = [call_result EXCEPT ![c] = "Err"]
    /\ call_pc' = [call_pc EXCEPT ![c] = "rejected"]
    /\ UNCHANGED <<max_concurrent_calls, active_calls, direct, answered_ids, direct_calls,
                   callRest>>

handle_incoming_call_insert(c) ==
    /\ call_pc[c] = "handle_incoming_call:insert"
    /\ ~ReadLockHeld
    /\ active_calls' = [active_calls EXCEPT ![c] = "Ringing"]
    /\ call_pc' = [call_pc EXCEPT ![c] = "handle_incoming_call:statistics"]
    /\ UNCHANGED <<max_concurrent_calls, statistics, direct, call_result, answered_ids,
                   direct_calls, callRest>>

\* the statistics block, then tokio::spawn of the auto-answer task and Ok
handle_incoming_call_count(c) ==
    /\ call_pc[c] = "handle_incoming_call:statistics"
    /\ statistics' = [statistics EXCEPT !.total_calls = @ + 1, !.active_calls = @ + 1]
    /\ call_result' = [call_result EXCEPT ![c] = "Ok"]
    /\ call_pc' = [call_pc EXCEPT ![c] = "auto_answer_call"]
    /\ UNCHANGED <<max_concurrent_calls, active_calls, direct, answered_ids, direct_calls,
                   callRest>>

\* the auto-answer delay has passed: is the call still in the map
auto_answer_call_exists(c) ==
    /\ call_pc[c] = "auto_answer_call"
    /\ call_pc' = [call_pc EXCEPT ![c] =
           IF active_calls[c] # "absent" THEN "answer_call" ELSE "task done"]
    /\ UNCHANGED <<max_concurrent_calls, active_calls, statistics, direct, call_result,
                   answered_ids, direct_calls, callRest>>

answer_call_status(t) ==
    /\ call_pc[t] = "answer_call"
    /\ ~ReadLockHeld
    /\ \E c \in {Target(t)} :
        IF active_calls[c] # "absent"
        THEN /\ active_calls' = [active_calls EXCEPT ![c] = "Answered"]
             /\ answered_ids' = answered_ids \cup {c}
             /\ call_pc' = [call_pc EXCEPT ![t] = "answer_call:statistics"]
             /\ UNCHANGED direct
        ELSE /\ call_pc' = [call_pc EXCEPT ![t] = Failed(t)]
             /\ direct' = IF t = 0 THEN 0 ELSE direct
             /\ UNCHANGED <<active_calls, answered_ids>>
    /\ UNCHANGED <<max_concurrent_calls, statistics, call_result, direct_calls, callRest>>

answer_call_statistics(t) ==
    /\ call_pc[t] = "answer_call:statistics"
    /\ statistics' = [statistics EXCEPT !.answered_calls = @ + 1]
    /\ call_pc' = [call_pc EXCEPT ![t] = IF t = 0 THEN "idle" ELSE "start_tone_playback"]
    /\ direct' = IF t = 0 THEN 0 ELSE direct
    /\ UNCHANGED <<max_concurrent_calls, active_calls, call_result, answered_ids,
                   direct_calls, callRest>>

start_tone_playback_status(c) ==
    /\ call_pc[c] = "start_tone_playback"
    /\ ~ReadLockHeld
    /\ IF active_calls[c] # "absent"
       THEN /\ active_calls' = [active_calls EXCEPT ![c] = "InProgress"]
            /\ call_pc' = [call_pc EXCEPT ![c] = "start_tone_playback:playing"]
       ELSE /\ call_pc' = [call_pc EXCEPT ![c] = "task failed"]
            /\ UNCHANGED active_calls
    /\ UNCHANGED <<max_concurrent_calls, statistics, direct, call_result, answered_ids,
                   direct_calls, callRest>>

\* generate_tone (which has no error return and leaves is_generating as it
\* found it), pcm_to_mulaw, and the sleep for the tone's duration
start_tone_playback_play(c) ==
    /\ call_pc[c] = "start_tone_playback:playing"
    /\ call_pc' = [call_pc EXCEPT ![c] = "hangup_call"]
    /\ UNCHANGED <<max_concurrent_calls, active_calls, statistics, direct, call_result,
                   answered_ids, direct_calls, callRest>>

hangup_call_mark(t) ==
    /\ call_pc[t] = "hangup_call"
    /\ ~ReadLockHeld
    /\ \E c \in {Target(t)} :
        IF active_calls[c] # "absent"
        THEN /\ active_calls' = [active_calls EXCEPT ![c] = "Hanging"]
             /\ call_pc' = [call_pc EXCEPT ![t] = "hangup_call:remove"]
             /\ UNCHANGED direct
        ELSE /\ call_pc' = [call_pc EXCEPT ![t] = Failed(t)]
             /\ direct' = IF t = 0 THEN 0 ELSE direct
             /\ UNCHANGED active_calls
    /\ UNCHANGED <<max_concurrent_calls, statistics, call_result, answered_ids,
                   direct_calls, callRest>>

\* hangup_call with the removal left out
hangup_call_remove_KeepsCall(t) ==
    /\ call_pc[t] = "hangup_call:remove"
    /\ ~ReadLockHeld
    /\ call_pc' = [call_pc EXCEPT ![t] = "hangup_call:statistics"]
    /\ UNCHANGED <<max_concurrent_calls, active_calls, statistics, direct, call_result,
                   answered_ids, direct_calls, callRest>>

hangup_call_remove(t) ==
    /\ call_pc[t] = "hangup_call:remove"
    /\ ~ReadLockHeld
    /\ active_calls' = [active_calls EXCEPT ![Target(t)] = "absent"]
    /\ call_pc' = [call_pc EXCEPT ![t] = "hangup_call:statistics"]
    /\ UNCHANGED <<max_concurrent_calls, statistics, direct, call_result, answered_ids,
                   direct_calls, callRest>>

hangup_call_statistics(t) ==
    /\ call_pc[t] = "hangup_call:statistics"
    /\ statistics' = update_statistics(statistics, TRUE)
    /\ call_pc' = [call_pc EXCEPT ![t] = IF t = 0 THEN "idle" ELSE "task done"]
    /\ direct' = IF t = 0 THEN 0 ELSE direct
    /\ UNCHANGED <<max_concurrent_calls, active_calls, call_result, answered_ids,
                   direct_calls, callRest>>

\* a caller that was given call id c invokes answer_call(c)
direct_answer_call(c) ==
    /\ call_pc[0] = "idle"
    /\ direct_calls < MaxDirectCalls
    /\ call_result[c] = "Ok"
    /\ call_pc' = [call_pc EXCEPT ![0] = "answer_call"]
    /\ direct' = c
    /\ direct_calls' = direct_calls + 1
    /\ UNCHANGED <<max_concurrent_calls, active_calls, statistics, call_result,
                   answered_ids, callRest>>

\* a caller that was given call id c invokes hangup_call(c, reason)
direct_hangup_call(c) ==
    /\ call_pc[0] = "idle"
    /\ direct_calls < MaxDirectCalls
    /\ call_result[c] = "Ok"
    /\ call_pc' = [call_pc EXCEPT ![0] = "hangup_call"]
    /\ direct' = c
    /\ direct_calls' = direct_calls + 1
    /\ UNCHANGED <<max_concurrent_calls, active_calls, statistics, call_result,
                   answered_ids, callRest>>

\* the steps of a task that is under way
TaskStep(t) ==
    \/ t \in CallIds /\ handle_incoming_call_reject(t)
    \/ t \in CallIds /\ handle_incoming_call_insert(t)
    \/ t \in CallIds /\ handle_incoming_call_count(t)
    \/ t \in CallIds /\ auto_answer_call_exists(t)
    \/ answer_call_status(t)
    \/ answer_call_statistics(t)
    \/ t \in CallIds /\ start_tone_playback_status(t)
    \/ t \in CallIds /\ start_tone_playback_play(t)
    \/ hangup_call_mark(t)
    \/ hangup_call_remove(t)
    \/ hangup_call_statistics(t)

CallNext ==
    \/ \E c \in CallIds : handle_incoming_call_check(c)
    \/ \E c \in CallIds : direct_answer_call(c)
    \/ \E c \in CallIds : direct_hangup_call(c)
    \/ \E t \in Tasks : TaskStep(t)

SpecCalls == CallInit /\ [][CallNext]_vars

\* the tokio runtime polls every task that is ready, its sleeps end, and its
\* RwLocks are granted in turn: a task under way keeps taking steps. Calls
\* arrive, and direct invocations are made, only if the outside world makes
\* them.
SpecCallsFair == CallInit /\ [][CallNext]_vars /\ \A t \in Tasks : WF_vars(TaskStep(t))

\* ---- HealthMonitor: run() from the initial server start through its
\*      monitoring loop, against a server whose process and /health endpoint
\*      change as the outside world makes them
monRest == <<procVars, codecVars, rsVars, convVars, limVars, bandVars, pipeVars, toneVars,
            cfgVars, callVars>>

\* health_check_interval_seconds of the configuration file
CheckIntervals == {30, 60}

MonInit ==
    /\ health_config \in
           {[HealthConfig_default EXCEPT !.health_check_interval_seconds = i,
                                         !.max_restart_attempts = m] :
               i \in CheckIntervals, m \in 0..MaxRestartAttempts}
    /\ monitor = HealthMonitor_new
    /\ mon_pc = "new"
    /\ server \in Servers
    /\ last_check = NoCheck
    /\ should_restart_call = NoShouldRestartCall
    /\ restart_calls = 0
    /\ ProcIdle
    /\ CodecIdle
    /\ RsIdle
    /\ ConvIdle
    /\ LimIdle
    /\ BandIdle
    /\ PipeIdle
    /\ ToneIdle
    /\ CfgIdle
    /\ CallIdle

\* start_server: the command exits with success or not; on success the
\* server is whatever the started binary turns out to be, and two seconds pass
start_server(ok, started) ==
    IF ok
    THEN /\ server' = started
         /\ monitor' = [monitor EXCEPT
                !.server_start_time = Some(0),
                !.last_restart_time = Elapse(@, 2)]
    ELSE UNCHANGED <<server, monitor>>

\* run: the initial server start; its error is returned with `?`
run_start ==
    /\ mon_pc = "new"
    /\ \E ok \in BOOLEAN, started \in Servers :
        /\ start_server(ok, started)
        /\ mon_pc' = IF ok THEN "sleeping" ELSE "start failed"
    /\ UNCHANGED <<health_config, last_check, should_restart_call, restart_calls, monRest>>

\* run: the sleep of one interval, check_health, and the Ok arm
run_check ==
    /\ mon_pc = "sleeping"
    /\ \E result \in {check_health(server)} :
        /\ last_check' = [result |-> IF result = "Ok" THEN "passed" ELSE "failed",
                          server |-> server]
        /\ monitor' = [monitor EXCEPT
               !.last_restart_time =
                   Elapse(@, health_config.health_check_interval_seconds),
               !.restart_attempts = IF result = "Ok" THEN 0 ELSE @]
        /\ mon_pc' = IF result = "Ok" THEN "sleeping" ELSE "check failed"
        /\ restart_calls' = IF result = "Ok" THEN 0 ELSE restart_calls
    /\ UNCHANGED <<health_config, server, should_restart_call, monRest>>

\* run: the Err arm asks should_restart and restarts or breaks out of the loop
run_should_restart ==
    /\ mon_pc = "check failed"
    /\ \E result \in {should_restart(monitor, health_config)} :
        /\ should_restart_call' = [called |-> TRUE, self |-> monitor, result |-> result]
        /\ mon_pc' = IF result THEN "restart_server" ELSE "gave up"
    /\ UNCHANGED <<health_config, monitor, server, last_check, restart_calls, monRest>>

\* restart_server: stop_server, whose error is returned with `?`, then the
\* restart delay. The count of restart_server calls stops one past the maximum.
restart_server_stop ==
    /\ mon_pc = "restart_server"
    /\ restart_calls' = IF restart_calls > health_config.max_restart_attempts
                        THEN restart_calls ELSE restart_calls + 1
    /\ \E ok \in BOOLEAN :
        IF ok
        THEN /\ server' = [server EXCEPT !.running = FALSE]
             /\ monitor' = [monitor EXCEPT
                    !.last_restart_time =
                        Elapse(@, health_config.restart_delay_seconds)]
             /\ mon_pc' = "restart_server:start"
        ELSE /\ mon_pc' = "sleeping"
             /\ UNCHANGED <<server, monitor>>
    /\ UNCHANGED <<health_config, last_check, should_restart_call, monRest>>

\* restart_server: start_server, whose error is returned with `?`, then the
\* attempt is counted and the time of the restart kept
restart_server_start ==
    /\ mon_pc = "restart_server:start"
    /\ \E ok \in BOOLEAN, started \in Servers :
        IF ok
        THEN /\ server' = started
             /\ monitor' = [monitor EXCEPT
                    !.server_start_time = Some(0),
                    !.restart_attempts = @ + 1,
                    !.last_restart_time = Some(0)]
        ELSE UNCHANGED <<server, monitor>>
    /\ mon_pc' = "sleeping"
    /\ UNCHANGED <<health_config, last_check, should_restart_call, restart_calls, monRest>>

\* the server's process dies or its endpoint starts answering differently
server_event ==
    /\ \E srv \in Servers :
        /\ srv # server
        /\ server' = srv
    /\ UNCHANGED <<health_config, monitor, mon_pc, last_check, should_restart_call,
                   restart_calls, monRest>>

\* the steps of run()
MonitorStep ==
    \/ run_start
    \/ run_check
    \/ run_should_restart
    \/ restart_server_stop
    \/ restart_server_start

MonNext ==
    \/ MonitorStep
    \/ server_event

SpecMonitor == MonInit /\ [][MonNext]_vars

\* run() is the one task of the monitor's runtime: its sleeps end, its HTTP
\* request ends by the client's timeout, and the commands it spawns return
SpecMonitorFair == MonInit /\ [][MonNext]_vars /\ WF_vars(MonitorStep)

\* ---- Mp3Handler: convert_mp3_to_wav calls (one per server start) and
\* read_wav_samples, against a file system that outlives each call
ConvInit ==
    /\ ConvIdle
    /\ ProcIdle
    /\ CodecIdle
    /\ RsIdle
    /\ FnIdle

convRest == <<config, twin, twinOut, calls, resets, sinceReset, beforeReset,
              rs_calls, rs_emitted, rs_input, rs_prev_input>>

\* the call returns: Err drops the WavWriter and leaves the file as written
Return(result) ==
    /\ conv_pc' = "returned"
    /\ conv_result' = result

\* lines 69-72: the WAV file already exists
ConvertExisting ==
    /\ conv_pc \in {"idle", "returned"}
    /\ conv_calls < MaxConvertCalls
    /\ wav_file.exists
    /\ conv_calls' = conv_calls + 1
    /\ conv_failed' = FALSE
    /\ Return("Ok")
    /\ UNCHANGED <<wav_file, packets, audio_buf, sample_count, read_result>>
    /\ UNCHANGED <<procVars, codecVars, rsVars, fnVars>>

\* lines 76-115: opening or probing the MP3, finding the track, making the
\* decoder or creating the WAV writer fails
ConvertSetupFails ==
    /\ conv_pc \in {"idle", "returned"}
    /\ conv_calls < MaxConvertCalls
    /\ ~wav_file.exists
    /\ conv_calls' = conv_calls + 1
    /\ conv_failed' = FALSE
    /\ Return("Err")
    /\ UNCHANGED <<wav_file, packets, audio_buf, sample_count, read_result>>
    /\ UNCHANGED <<procVars, codecVars, rsVars, fnVars>>

\* lines 76-122: the WAV file is created, the resampler built, the processor reset
ConvertBegin ==
    /\ conv_pc \in {"idle", "returned"}
    /\ conv_calls < MaxConvertCalls
    /\ ~wav_file.exists
    /\ conv_calls' = conv_calls + 1
    /\ conv_failed' = FALSE
    /\ wav_file' = [exists |-> TRUE, samples |-> <<>>, complete |-> FALSE,
                    created_by |-> conv_calls + 1]
    /\ sample_count' = 0
    /\ packets' = 0
    /\ audio_buf' = <<>>
    /\ \E source_sample_rate \in SourceRates :
         resampler' = Resampler_new(source_sample_rate, target_sample_rate)
    /\ rs_output' = <<>>
    /\ proc' = reset(proc)
    /\ conv_pc' = "loop"
    /\ UNCHANGED <<conv_result, read_result, out, convRest, codecVars, fnVars>>

\* lines 125-126, 143-147: next_packet returns a packet of the track
NextPacketOk ==
    /\ conv_pc = "loop"
    /\ packets < MaxPackets
    /\ packets' = packets + 1
    /\ conv_pc' = "packet"
    /\ UNCHANGED <<wav_file, conv_result, conv_failed, conv_calls, audio_buf,
                   sample_count, read_result>>
    /\ UNCHANGED <<procVars, codecVars, rsVars, fnVars>>

\* lines 143-145: a packet of another track is skipped
NextPacketOtherTrack ==
    /\ conv_pc = "loop"
    /\ packets < MaxPackets
    /\ packets' = packets + 1
    /\ UNCHANGED <<wav_file, conv_pc, conv_result, conv_failed, conv_calls, audio_buf,
                   sample_count, read_result>>
    /\ UNCHANGED <<procVars, codecVars, rsVars, fnVars>>

\* lines 127-132: Err(ResetRequired) leaves the loop
NextPacketResetRequired ==
    /\ conv_pc = "loop"
    /\ conv_pc' = "finalize"
    /\ UNCHANGED <<wav_file, conv_result, conv_failed, conv_calls, packets, audio_buf,
                   sample_count, read_result>>
    /\ UNCHANGED <<procVars, codecVars, rsVars, fnVars>>

\* lines 133-136: Err(IoError(_)) leaves the loop, whether the reader reached
\* the end of the stream or the read itself failed
NextPacketIoError ==
    /\ conv_pc = "loop"
    /\ \E read_failed \in BOOLEAN : conv_failed' = read_failed
    /\ conv_pc' = "finalize"
    /\ UNCHANGED <<wav_file, conv_result, conv_calls, packets, audio_buf,
                   sample_count, read_result>>
    /\ UNCHANGED <<procVars, codecVars, rsVars, fnVars>>

\* lines 137-140: any other error returns Err
NextPacketError ==
    /\ conv_pc = "loop"
    /\ conv_failed' = TRUE
    /\ Return("Err")
    /\ UNCHANGED <<wav_file, conv_calls, packets, audio_buf, sample_count, read_result>>
    /\ UNCHANGED <<procVars, codecVars, rsVars, fnVars>>

\* lines 147-152, 181: the packet decodes to an F32 or F64 buffer
DecodeOk ==
    /\ conv_pc = "packet"
    /\ \E buf \in Buffers : audio_buf' = buf
    /\ conv_pc' = "buffer"
    /\ UNCHANGED <<wav_file, conv_result, conv_failed, conv_calls, packets,
                   sample_count, read_result>>
    /\ UNCHANGED <<procVars, codecVars, rsVars, fnVars>>

\* lines 212-219: a buffer of another sample format is skipped with a warning
DecodeUnsupported ==
    /\ conv_pc = "packet"
    /\ conv_pc' = IF sample_count >= MaxSamples THEN "finalize" ELSE "loop"
    /\ UNCHANGED <<wav_file, conv_result, conv_failed, conv_calls, packets, audio_buf,
                   sample_count, read_result>>
    /\ UNCHANGED <<procVars, codecVars, rsVars, fnVars>>

\* lines 147-148: decode fails
DecodeError ==
    /\ conv_pc = "packet"
    /\ conv_failed' = TRUE
    /\ Return("Err")
    /\ UNCHANGED <<wav_file, conv_calls, packets, audio_buf, sample_count, read_result>>
    /\ UNCHANGED <<procVars, codecVars, rsVars, fnVars>>

\* lines 154-179: one sample of the buffer is resampled, processed and written
BufferSample ==
    /\ conv_pc = "buffer"
    /\ audio_buf # <<>>
    /\ sample_count < MaxSamples
    /\ LET smp == Head(audio_buf)
           resample == resampler.source_rate # resampler.target_rate
           rs == Resampler_process_sample(resampler, smp)
           resampled_samples == IF resample THEN rs.output_samples ELSE <<smp>>
       IN /\ resampler' = IF resample THEN rs.r ELSE resampler
          /\ rs_output' = IF resample THEN rs.output_samples ELSE rs_output
          /\ audio_buf' = Tail(audio_buf)
          /\ IF resampled_samples = <<>>
             THEN UNCHANGED <<proc, out, wav_file, sample_count, conv_pc,
                              conv_result, conv_failed>>
             ELSE LET processed == process_sample(proc, config, Head(resampled_samples))
                      sample_i16 == SampleToI16(processed.out)
                  IN /\ proc' = processed.p
                     /\ out' = processed.out
                     /\ \E write_ok \in BOOLEAN :
                          IF write_ok
                          THEN /\ wav_file' = [wav_file EXCEPT
                                                 !.samples = Append(@, sample_i16)]
                               /\ sample_count' = sample_count + 1
                               /\ UNCHANGED <<conv_pc, conv_result, conv_failed>>
                          ELSE /\ conv_failed' = TRUE
                               /\ Return("Err")
                               /\ UNCHANGED <<wav_file, sample_count>>
    /\ UNCHANGED <<conv_calls, packets, read_result, convRest, codecVars, fnVars>>

\* lines 154-157, 217-219: the buffer is exhausted or max_samples is reached
BufferDone ==
    /\ conv_pc = "buffer"
    /\ audio_buf = <<>> \/ sample_count >= MaxSamples
    /\ audio_buf' = <<>>
    /\ conv_pc' = IF sample_count >= MaxSamples THEN "finalize" ELSE "loop"
    /\ UNCHANGED <<wav_file, conv_result, conv_failed, conv_calls, packets,
                   sample_count, read_result>>
    /\ UNCHANGED <<procVars, codecVars, rsVars, fnVars>>

\* lines 222-227: finalize succeeds and the call returns Ok
FinalizeOk ==
    /\ conv_pc = "finalize"
    /\ wav_file' = [wav_file EXCEPT !.complete = TRUE]
    /\ Return("Ok")
    /\ UNCHANGED <<conv_failed, conv_calls, packets, audio_buf, sample_count, read_result>>
    /\ UNCHANGED <<procVars, codecVars, rsVars, fnVars>>

\* lines 222-223: finalize fails
FinalizeError ==
    /\ conv_pc = "finalize"
    /\ conv_failed' = TRUE
    /\ Return("Err")
    /\ UNCHANGED <<wav_file, conv_calls, packets, audio_buf, sample_count, read_result>>
    /\ UNCHANGED <<procVars, codecVars, rsVars, fnVars>>

\* lines 231-240: read_wav_samples opens the file at wav_path
ReadWavSamples ==
    /\ conv_pc \in {"idle", "returned"}
    /\ read_result' = IF wav_file.exists
                      THEN [kind |-> "Ok", samples |-> wav_file.samples,
                            complete |-> wav_file.complete]
                      ELSE [kind |-> "Err", samples |-> <<>>, complete |-> FALSE]
    /\ UNCHANGED <<wav_file, conv_pc, conv_result, conv_failed, conv_calls, packets,
                   audio_buf, sample_count>>
    /\ UNCHANGED <<procVars, codecVars, rsVars, fnVars>>

ConvNext ==
    \/ ConvertExisting
    \/ ConvertSetupFails
    \/ ConvertBegin
    \/ NextPacketOk
    \/ NextPacketOtherTrack
    \/ NextPacketResetRequired
    \/ NextPacketIoError
    \/ NextPacketError
    \/ DecodeOk
    \/ DecodeUnsupported
    \/ DecodeError
    \/ BufferSample
    \/ BufferDone
    \/ FinalizeOk
    \/ FinalizeError
    \/ ReadWavSamples

SpecConvert == ConvInit /\ [][ConvNext]_vars

\* ------------------------------------------------------------------------
\* Claims about TelephonyAudioProcessor
\* ------------------------------------------------------------------------
SomeCellNonFinite == \E c \in Cells(proc) : ~IsFinite(c)

\* C1: process_sample returns a finite value for every finite input, from
\* every processor state reachable by earlier finite inputs and resets, under
\* every configuration validate accepts.
C1_ProcessSampleFinite == IsFinite(out)

\* C2: a non-finite value computed by a stage is replaced by 0.0 before it
\* is kept: no history cell or envelope that a later process_sample call
\* reads ever holds a non-finite value.
C2_NonFiniteNeverStored == ~SomeCellNonFinite

\* C3: once reset() has run, the processor's cells equal those of a
\* processor built by new(), and the two return the same sample for every
\* input fed to both afterwards.
C3_ResetEqualsFresh ==
    resets > 0 => (proc = twin /\ (sinceReset > 0 => out = twinOut))

\* C3 witness: reset() cleared cells that were not at their construction
\* values, and the processor has produced a non-zero sample since.
C3_Witness ==
    /\ resets > 0
    /\ beforeReset # TelephonyAudioProcessor_new
    /\ \E c \in Cells(beforeReset) : ~IsFinite(c)
    /\ sinceReset > 0
    /\ out # 0

\* ------------------------------------------------------------------------
\* Claims about the G.711 encoders
\* ------------------------------------------------------------------------
\* index of the highest set bit of n >= 1
RECURSIVE HighBit(_)
HighBit(n) == IF n <= 1 THEN 0 ELSE 1 + HighBit(n \div 2)

\* ITU-T G.711 mu-law: sign bit, magnitude clipped to 32635 and biased by
\* 132, exponent = segment of the highest set bit of the biased magnitude
\* (0 for 128..255 up to 7 for 16384..32767), mantissa = the 4 bits below
\* that bit, whole byte inverted.
G711_mulaw(pcm) ==
    LET sign == IF pcm < 0 THEN 128 ELSE 0
        mag == IF Abs(pcm) > 32635 THEN 32635 ELSE Abs(pcm)
        biased == mag + 132
        exponent == HighBit(biased) - 7
        mantissa == (biased \div Pow2(exponent + 3)) % 16
    IN 255 - (sign + 16 * exponent + mantissa)

\* ITU-T G.711 A-law (the G.191 reference alaw_compress): 12-bit magnitude,
\* one's complement for negative samples, sign bit SET for samples >= 0,
\* even bits inverted (XOR 0x55).
RECURSIVE AlawSegment(_, _)
AlawSegment(ix, iexp) ==
    IF ix > 31 THEN AlawSegment(ix \div 2, iexp + 1) ELSE (ix - 16) + 16 * iexp

G711_alaw(pcm) ==
    LET ix == IF pcm < 0 THEN (0 - pcm - 1) \div 16 ELSE pcm \div 16
        body == IF ix > 15 THEN AlawSegment(ix, 1) ELSE ix
        signed == IF pcm >= 0 THEN body + 128 ELSE body
    IN BitXor(signed, 85)

Encoded == encodes > 0

\* C4: linear_to_mulaw and linear_to_alaw are total over -32768..32767: every
\* call returns a byte, with no arithmetic overflow and no panic.
C4_EncodersTotal ==
    Encoded =>
        /\ ~NegOverflows(sample)
        /\ mulaw.kind = "byte" /\ mp3_mulaw.kind = "byte" /\ alaw.kind = "byte"

\* C5: for every 16-bit sample, linear_to_mulaw (ToneGenerator's and
\* Mp3Handler's) returns the byte of the ITU-T G.711 mu-law encoder.
C5_MulawIsG711 ==
    Encoded =>
        /\ mulaw = Byte(G711_mulaw(sample))
        /\ mp3_mulaw = Byte(G711_mulaw(sample))

\* C6: for every 16-bit sample, linear_to_alaw returns the byte of the ITU-T
\* G.711 A-law encoder, sign-bit polarity and even-bit inversion included.
C6_AlawIsG711 == Encoded => alaw = Byte(G711_alaw(sample))

\* C7: the zero sample encodes to 0xFF under mu-law and to 0x55 under A-law,
\* and encoding a sample again yields the outcome of its first encoding.
C7_ZeroAndDeterministic ==
    Encoded =>
        /\ sample = 0 => (mulaw = Byte(255) /\ mp3_mulaw = Byte(255) /\ alaw = Byte(85))
        /\ <<mulaw, mp3_mulaw, alaw>> = first

\* C7 witness: the zero sample has been encoded twice by both encoders.
C7_Witness ==
    /\ sample = 0
    /\ encodes >= 2
    /\ mulaw.kind = "byte" /\ mulaw.byte = 255
    /\ alaw.kind = "byte" /\ alaw.byte = 85

\* ------------------------------------------------------------------------
\* Claims about SimpleResampler
\* ------------------------------------------------------------------------
\* C10: every SimpleResampler::process_sample call returns exactly 0 or 1
\* output samples, for every rate pair (target_rate > source_rate included)
\* and every accumulator state reached by earlier calls.
C10_ZeroOrOneOutput == Len(rs_output) \in {0, 1}

\* C10 witness: when upsampling, a call returned one sample although the
\* accumulator still holds at least one more whole sample period.
C10_Witness ==
    /\ rs_calls >= 2
    /\ resampler.target_rate > resampler.source_rate
    /\ resampler.position >= 2 * resampler.source_rate
    /\ Len(rs_output) = 1

\* the resampler was built for the documented 44100 Hz -> 8000 Hz conversion
Downsampling44100To8000 == resampler.source_rate = 44100 /\ resampler.target_rate = 8000

\* C11: a fresh 44100 -> 8000 resampler fed N samples has emitted a number
\* of samples that differs from floor(N * 8000 / 44100) by at most 1.
C11_OutputCountWithinOne ==
    Downsampling44100To8000 =>
        Abs(rs_emitted - ((rs_calls * 8000) \div 44100)) <= 1

\* C11 witness: the 44100 -> 8000 resampler has consumed 17 samples and
\* emitted its third output.
C11_Witness ==
    /\ Downsampling44100To8000
    /\ rs_calls = 17
    /\ rs_emitted = 3
    /\ Len(rs_output) = 1

\* C12: a sample the resampler emits is the midpoint (prev + cur) / 2 of the
\* current input and the input of the call before (to within one unit of
\* the fixed-point resolution), whatever the earlier calls emitted.
C12_OutputIsMidpoint ==
    Len(rs_output) = 1 =>
        /\ IsFinite(rs_output[1])
        /\ Abs(2 * rs_output[1] - (rs_prev_input + rs_input)) <= 2

\* ------------------------------------------------------------------------
\* Claims about the soft limiter
\* ------------------------------------------------------------------------
Limited == lim_out # NotComputed

\* C13: for every finite input the soft limiter's output magnitude is at most
\* soft_limiter_threshold plus a negligible epsilon (one unit of the
\* fixed-point format).
C13_LimiterBounded ==
    Limited =>
        \A i \in 1..2 :
            FLe(FAbs(lim_out[i]), FAdd(lim_cfg.soft_limiter_threshold, 1))

\* C14: the soft limiter is monotonic in |x|: |a| <= |b| implies
\* |soft_limiter(a)| <= |soft_limiter(b)|, also across the threshold.
C14_LimiterMonotonic ==
    (Limited /\ FLe(FAbs(lim_a), FAbs(lim_b))) =>
        FLe(FAbs(lim_out[1]), FAbs(lim_out[2]))

\* ------------------------------------------------------------------------
\* Claims about compress_band
\* ------------------------------------------------------------------------
\* C15: with enabled = false, compress_band returns its input unchanged and
\* leaves the band's envelope unchanged, for every input and every envelope.
C15_DisabledBandBypassed ==
    [][(CompressBand /\ ~band_config.enabled) =>
          /\ band_result'.out = band_input
          /\ band_compressor' = band_compressor]_vars

\* C15 witness: a disabled band returned a non-zero sample while holding a
\* non-zero envelope that the enabled band would have moved.
C15_Witness ==
    /\ band_result # NotComputed
    /\ ~band_config.enabled
    /\ band_input = FMax
    /\ band_result.out = FMax
    /\ band_compressor.envelope = 5

\* ------------------------------------------------------------------------
\* Claims about the order of the stages
\* ------------------------------------------------------------------------
Returned == pipe_pc = "return" /\ pipe_calls > 0

\* the statements of the band split, the per-band compression and the recombination
BandStages ==
    {"apply_lowpass_filter", "apply_highpass_filter", "apply_bandpass_filter",
     "compress_band1", "compress_band2", "compress_band3", "combine"}

\* the one log entry of a stage
Entry(stage) == CHOOSE e \in {pipe_log[i] : i \in 1..Len(pipe_log)} : e.stage = stage

StagesOnceInOrder ==
    /\ Len(pipe_log) = 11
    /\ pipe_log[1].stage = "preemphasis_filter"
    /\ pipe_log[2].stage = "bandpass_filter"
    /\ {pipe_log[i].stage : i \in 3..9} = BandStages
    /\ pipe_log[9].stage = "combine"
    /\ pipe_log[10].stage = "noise_gate"
    /\ pipe_log[11].stage = "soft_limiter"

StagesChained ==
    /\ pipe_log[1].inputs = <<pipe_locals.input>>
    /\ pipe_log[2].inputs = <<pipe_log[1].output>>
    /\ \A stage \in {"apply_lowpass_filter", "apply_highpass_filter", "apply_bandpass_filter"} :
         Entry(stage).inputs = <<pipe_log[2].output>>
    /\ Entry("compress_band1").inputs = <<Entry("apply_lowpass_filter").output>>
    /\ Entry("compress_band2").inputs = <<Entry("apply_bandpass_filter").output>>
    /\ Entry("compress_band3").inputs = <<Entry("apply_highpass_filter").output>>
    /\ pipe_log[9].inputs = <<Entry("compress_band1").output, Entry("compress_band2").output,
                              Entry("compress_band3").output>>
    /\ pipe_log[10].inputs = <<pipe_log[9].output>>
    /\ pipe_log[11].inputs = <<pipe_log[10].output>>
    /\ pipe_out = pipe_log[11].output

OwnCellsOnly ==
    /\ Entry("apply_lowpass_filter").changed \subseteq
         {"lowpass1_x1", "lowpass1_x2", "lowpass1_y1", "lowpass1_y2"}
    /\ Entry("apply_highpass_filter").changed \subseteq
         {"highpass2_x1", "highpass2_x2", "highpass2_y1", "highpass2_y2"}
    /\ Entry("apply_bandpass_filter").changed \subseteq
         {"bandpass2_x1", "bandpass2_x2", "bandpass2_y1", "bandpass2_y2"}

\* C16: each process_sample call runs the stages exactly once in the order
\* pre-emphasis, bandpass, band split with per-band compression and
\* recombination, noise gate, soft limiter; each stage takes the previous
\* stage's output; the three band-split filters take the same bandpassed
\* sample and each updates only its own four history cells; the statements
\* together compute what process_sample returns and leaves in self.
C16_StagesInOrder ==
    Returned =>
        /\ StagesOnceInOrder
        /\ StagesChained
        /\ OwnCellsOnly
        /\ \E whole \in {process_sample(pipe_entry, pipe_config, pipe_locals.input)} :
             /\ pipe_out = whole.out
             /\ pipe_proc = whole.p

\* C16 witness: a second call returned a non-zero sample after each of the
\* three band-split filters had moved all four of its history cells.
C16_Witness ==
    /\ Returned
    /\ pipe_calls = 2
    /\ pipe_out # 0
    /\ Entry("apply_lowpass_filter").changed =
         {"lowpass1_x1", "lowpass1_x2", "lowpass1_y1", "lowpass1_y2"}
    /\ Entry("apply_highpass_filter").changed =
         {"highpass2_x1", "highpass2_x2", "highpass2_y1", "highpass2_y2"}
    /\ Entry("apply_bandpass_filter").changed =
         {"bandpass2_x1", "bandpass2_x2", "bandpass2_y1", "bandpass2_y2"}

\* ------------------------------------------------------------------------
\* Claims about the tone generator
\* ------------------------------------------------------------------------
\* the telephone keypad and the frequencies of its rows and columns
Keypad ==
    << <<"1", "2", "3", "A">>,
       <<"4", "5", "6", "B">>,
       <<"7", "8", "9", "C">>,
       <<"*", "0", "#", "D">> >>

RowHz == <<697, 770, 852, 941>>

ColumnHz == <<1209, 1336, 1477, 1633>>

DtmfCalled == tone_result # NotComputed /\ tone_result.op = "generate_dtmf_tone"

\* C17: generate_dtmf_tone maps each of the 16 digits to the pair (row
\* frequency, column frequency) of its key on the standard keypad, and no two
\* digits share a pair.
C17_DtmfKeypadPairs ==
    (DtmfCalled /\ tone_result.digit \in DtmfDigits) =>
        /\ tone_result.returned.ok
        /\ \E r \in 1..4, c \in 1..4 :
             /\ Keypad[r][c] = tone_result.digit
             /\ tone_result.returned.freqs = <<RowHz[r], ColumnHz[c]>>
        /\ \A other \in DtmfDigits \ {tone_result.digit} :
             DtmfFrequencies(other) # tone_result.returned.freqs

\* C17 witness: '5' for 100 ms at 8000 Hz gave 800 samples of 770 Hz + 1336 Hz.
C17_Witness ==
    /\ DtmfCalled
    /\ tone_result.digit = "5"
    /\ tone_result.sample_rate = 8000
    /\ tone_result.duration_seconds = [ms |-> 100]
    /\ tone_result.returned = [ok |-> TRUE, len |-> 800, freqs |-> <<770, 1336>>]

\* a generate_dtmf_tone call with a character that is no DTMF digit returned
BadDigitStep ==
    /\ tone_result' # tone_result
    /\ tone_result'.op = "generate_dtmf_tone"
    /\ tone_result'.digit \notin DtmfDigits

\* C18 as stated: for every character outside {0-9, A-D, *, #}, lowercase
\* a-d included, generate_dtmf_tone fails with an "unsupported DTMF digit"
\* error, returns no samples, and leaves the configuration and is_generating
\* unchanged.
C18_UnsupportedDigitError ==
    [][BadDigitStep =>
          /\ ~tone_result'.returned.ok
          /\ tone_result'.returned.error[1] = "unsupported DTMF digit"
          /\ "len" \notin DOMAIN tone_result'.returned
          /\ UNCHANGED <<tone_config, is_generating>>]_vars

\* C18 amended: for every such character generate_dtmf_tone fails with the
\* error "Invalid DTMF digit: <the character>", returns no samples, and leaves
\* the configuration and is_generating unchanged.
C18_InvalidDigitError ==
    [][BadDigitStep =>
          /\ ~tone_result'.returned.ok
          /\ tone_result'.returned.error = <<"Invalid DTMF digit: ", tone_result'.digit>>
          /\ "len" \notin DOMAIN tone_result'.returned
          /\ UNCHANGED <<tone_config, is_generating>>]_vars

\* C18 witness: lowercase 'a' was refused while another task was inside
\* generate_tone (is_generating set) and the configuration was not the default.
C18_Witness ==
    /\ DtmfCalled
    /\ tone_result.digit = "a"
    /\ ~tone_result.returned.ok
    /\ is_generating
    /\ tone_pc = "generating"
    /\ tone_config # ToneConfig_default

\* round(n * x) for an integer 0 < n < 2^16 and a single precision x >= 0,
\* computed exactly (halves round up)
RoundedProduct(n, x) ==
    IF x.m = 0 THEN 0
    ELSE
    Bind(Product(n, x), LAMBDA p :
      IF x.e <= 0 THEN (p.hi * 4096 + p.lo) * 2 ^ (0 - x.e)
      ELSE IF x.e <= 12
      THEN p.hi * 2 ^ (12 - x.e) + (p.lo \div 2 ^ x.e) + ((p.lo \div 2 ^ (x.e - 1)) % 2)
      ELSE IF x.e - 12 > 30 THEN 0
      ELSE (p.hi \div 2 ^ (x.e - 12)) + ((p.hi \div 2 ^ (x.e - 13)) % 2))

\* round(sample_rate * duration_ms / 1000), halves round up
RoundedMs(sample_rate, duration_ms) == (sample_rate * duration_ms + 500) \div 1000

\* C19: generate_tone returns exactly round(sample_rate * duration_seconds)
\* samples, and generate_dtmf_tone and generate_comfort_noise exactly
\* round(sample_rate * duration_ms / 1000), for every rate and duration.
C19_SampleCountRounded ==
    (tone_result # NotComputed /\ tone_result.returned.ok) =>
        /\ tone_result.op = "generate_tone" =>
             tone_result.returned.len =
                 RoundedProduct(tone_result.sample_rate, tone_result.duration_seconds)
        /\ tone_result.op \in {"generate_dtmf_tone", "generate_comfort_noise"} =>
             tone_result.returned.len =
                 RoundedMs(tone_result.sample_rate, tone_result.duration_seconds.ms)

\* ------------------------------------------------------------------------
\* Claims about configuration validation
\* ------------------------------------------------------------------------
\* lo < x <= hi and lo <= x <= hi as statements about numbers: nan and the
\* infinities are in no range
InLeftOpen(x, lo, hi) == IsFinite(x) /\ lo < x /\ x <= hi

InClosed(x, lo, hi) == IsFinite(x) /\ lo <= x /\ x <= hi

BandConfigInvariants(band) ==
    /\ InLeftOpen(band.target_level, 0, One)
    /\ InLeftOpen(band.attack_time, 0, 5 * One)
    /\ InLeftOpen(band.release_time, 0, 5 * One)
    /\ InClosed(band.ratio, One, 20 * One)
    /\ InClosed(band.threshold_factor, 0, One)
    /\ InClosed(band.knee_width, 0, One)

AllBandsInvariant(cfg) ==
    /\ BandConfigInvariants(cfg.band1_compressor)
    /\ BandConfigInvariants(cfg.band2_compressor)
    /\ BandConfigInvariants(cfg.band3_compressor)

\* C20: validation accepts the bands exactly when each has target_level in
\* (0,1], attack_time and release_time in (0,5], ratio in [1,20],
\* threshold_factor and knee_width in [0,1]; no processor is ever built from
\* a band with a field outside its range.
C20_BandRangesEnforced ==
    /\ validate_result # "not called" =>
         (validate_result = "Ok" <=> AllBandsInvariant(server_config))
    /\ mp3_handler # NotComputed => AllBandsInvariant(mp3_handler.config)

\* ------------------------------------------------------------------------
\* Claims about CallHandler
\* ------------------------------------------------------------------------
\* no task is inside handle_incoming_call, answer_call or hangup_call
Quiescent ==
    \A t \in Tasks : call_pc[t] \in
        {"idle", "not arrived", "rejected", "auto_answer_call", "start_tone_playback",
         "start_tone_playback:playing", "task done", "task failed"}

\* C21: whenever no CallHandler operation is mid-way, statistics.active_calls
\* equals the number of calls in the active-call map.
C21_ActiveCallsMatchesMap ==
    Quiescent => statistics.active_calls = Cardinality(Keys(active_calls))

\* C22: answer_call counts a call once: once the operations under way have
\* returned, answered_calls is the number of distinct calls that were
\* answered, and it never exceeds total_calls.
C22_AnsweredCountedOnce ==
    Quiescent =>
        /\ statistics.answered_calls = Cardinality(answered_ids)
        /\ statistics.answered_calls <= statistics.total_calls

\* C24: the number of calls in the active-call map never exceeds
\* max_concurrent_calls, under every interleaving of handle_incoming_call
\* invocations, and a call that was rejected is not in the map.
C24_CapacityNeverExceeded ==
    /\ Cardinality(Keys(active_calls)) <= max_concurrent_calls
    /\ \A c \in CallIds : call_result[c] = "Err" => active_calls[c] = "absent"

\* the place of a status in the order of a call's life
StatusRank(status) == CHOOSE k \in 1..Len(CallStatus) : CallStatus[k] = status

\* C29: while a call is in the active-call map, no step of any task moves
\* its status back along Ringing -> Answered -> InProgress -> Hanging.
C29_StatusOnlyForward ==
    [][\A c \in CallIds :
          (active_calls[c] # "absent" /\ active_calls'[c] # "absent")
              => StatusRank(active_calls'[c]) >= StatusRank(active_calls[c])]_vars

\* C28: every call accepted by handle_incoming_call is eventually removed
\* from the active-call map, whatever is invoked directly in between, given
\* that the tasks under way are scheduled fairly.
C28_AcceptedCallRemoved ==
    \A c \in CallIds : (call_result[c] = "Ok") ~> (active_calls[c] = "absent")

\* an accepted call was answered, its auto-answer task ran to its end, and
\* the call is out of the map, with direct invocations made on the way
C28_Witness ==
    \E c \in CallIds :
        /\ call_result[c] = "Ok"
        /\ c \in answered_ids
        /\ call_pc[c] = "task done"
        /\ active_calls[c] = "absent"
        /\ direct_calls > 0

\* ------------------------------------------------------------------------
\* Claims about HealthMonitor
\* ------------------------------------------------------------------------
\* C23: should_restart returns true exactly when restart_attempts <
\* max_restart_attempts and no restart completed within the last 60 seconds
\* (or none has happened yet), and the call changes no monitor state.
C23_ShouldRestartExact ==
    [][(mon_pc = "check failed" /\ mon_pc' # "check failed") =>
          /\ monitor' = monitor
          /\ should_restart_call'.called
          /\ should_restart_call'.self = monitor
          /\ should_restart_call'.result =
                 (/\ monitor.restart_attempts < health_config.max_restart_attempts
                  /\ \/ ~monitor.last_restart_time.some
                     \/ monitor.last_restart_time.elapsed >= 60)]_vars

\* should_restart was asked with attempts to spare and a restart less than
\* 60 seconds old, and said no
C23_Witness ==
    /\ should_restart_call.called
    /\ ~should_restart_call.result
    /\ should_restart_call.self.restart_attempts < health_config.max_restart_attempts
    /\ should_restart_call.self.last_restart_time.some
    /\ should_restart_call.self.last_restart_time.elapsed < 60

\* C25: run gives up only in a state where restart_attempts has reached
\* max_restart_attempts.
C25_GivesUpOnlyAtMaximum ==
    mon_pc = "gave up" => monitor.restart_attempts >= health_config.max_restart_attempts

\* C26: if every health check fails from some point on, run eventually gives
\* up and returns, having called restart_server at most max_restart_attempts
\* times since the last passed check, also when the restarts themselves fail.
C26_GivesUpWhenChecksKeepFailing ==
    /\ <>[](last_check.result = "failed") => <>(mon_pc = "gave up")
    /\ [](restart_calls <= health_config.max_restart_attempts)

\* the server process is running and /health answers with the server's own
\* 200 JSON body
Healthy(srv) == srv.running /\ srv.response = HealthEndpointResponse

\* C27: a check_health made while the server is running and answering with
\* its own 200 JSON body passes, so the monitor neither restarts that server
\* nor gives up on it.
C27_HealthyServerAccepted ==
    (last_check.result # "none" /\ Healthy(last_check.server)) =>
        /\ last_check.result = "passed"
        /\ mon_pc \notin {"check failed", "restart_server", "restart_server:start", "gave up"}

\* ------------------------------------------------------------------------
\* Claims about convert_mp3_to_wav
\* ------------------------------------------------------------------------
\* C8: an upstream failure while reading a packet, decoding a packet or
\* writing a sample is terminal: the call stops and returns Err, never Ok.
C8_UpstreamFailureTerminal ==
    conv_failed => (conv_pc = "returned" /\ conv_result = "Err")

\* the file at wav_path was left behind by a call that did not complete it
PartialFileLeft == wav_file.exists /\ ~wav_file.complete

\* C9: a WAV file left partly written by a failed conversion is never
\* treated as valid: no later convert_mp3_to_wav call returns Ok on the
\* strength of it, and read_wav_samples does not hand out its samples.
C9_PartialFileNeverValid ==
    /\ (PartialFileLeft /\ conv_pc = "returned" /\ conv_calls > wav_file.created_by)
          => conv_result # "Ok"
    /\ read_result.kind = "Ok" => read_result.complete

====
